---- MODULE Spec2Model ----
(***************************************************************************)
(* Model of the brainfuck interpreter: the two loop matchers, the bytecode *)
(* compiler (SourceFile::to_byte_codes) and the Machine with its two       *)
(* evaluation loops (eval_source_file, eval_byte_codes).                   *)
(*                                                                         *)
(* Indices (instr_ptr, data_ptr, jump targets, matcher indices) keep the   *)
(* 0-based values of the Rust code; a TLA+ sequence s is read at s[i + 1]. *)
(***************************************************************************)
EXTENDS Integers, Sequences, FiniteSets, TLC

(***************************************************************************)
(* Bounds of the exploration.                                              *)
(***************************************************************************)
\* longest token sequence evaluated end to end
MaxSrcLen == 3
\* largest tape of the end-to-end evaluation
MaxTapeLen == 2
\* length of the input stream offered to the IO port
MaxInputLen == 2
\* longest exhaustively enumerated input of the loop matchers
MaxMatchLen == 7
\* number of steps one evaluation is followed for
MaxSteps == 24
\* number of instruction-method calls explored from a fresh machine
MaxOpSteps == 2
\* length of the chain of add(1) calls
MaxAddRun == 256
\* longest exhaustively enumerated text given to lex, in characters
MaxRawLen == 4
\* longest exhaustively enumerated source given to to_byte_codes alone
MaxCompileLen == 4
\* number of steps an evaluation of the Hello World program is followed for
MaxHelloSteps == 1000
\* tape of the machine that evaluates the Hello World program
HelloTapeLen == 16
\* number of evaluations one machine is used for
MaxEvals == 3
\* longest exhaustively enumerated source of a reused machine
MaxReuseLen == 2
\* most names passed to InstructionTracingCollector::new
MaxCodes == 2
\* most add and finalize calls made on one collector
MaxTraceCalls == 4
\* usize arithmetic wraps at 2^64 on the target; TLC integers are
\* 32 bit wide, so the wrap is modelled at a modulus that is, like 2^64, far
\* above every tape length and every operand of the model.
UsizeModulus == 65536

\* CellDataType = u8
CellModulus == 256

(***************************************************************************)
(* Token texts.  "c" stands for a comment grapheme.                        *)
(***************************************************************************)
Alphabet == {">", "<", "+", "-", ".", ",", "[", "]", "c", "\n"}

MatchAlphabet == {"[", "]", "+"}

InputChars == {1, 258}

SeqsUpTo(S, n) == UNION {[1..k -> S] : k \in 0..n}

\* longer programs whose loops are entered and left
ExamplePrograms ==
    { <<"+", "[", "-", "]">>,
      <<",", "[", ".", "-", "]">>,
      <<"+", "+", "[", "-", ".", "]">>,
      <<"+", "[", "[", "-", "]", "]">>,
      <<",", ",", "[", ".", "-", "]", "c">>,
      <<"+", "+", "+", "[", "-", "\n", ">", "<", "]", ".", ".">> }

Sources == SeqsUpTo(Alphabet, MaxSrcLen) \cup ExamplePrograms

\* the 106 characters of the Hello World program, one token each
HelloWorld ==
    << "+", "+", "+", "+", "+", "+", "+", "+", "[", ">", "+", "+",
       "+", "+", "[", ">", "+", "+", ">", "+", "+", "+", ">", "+",
       "+", "+", ">", "+", "<", "<", "<", "<", "-", "]", ">", "+",
       ">", "+", ">", "-", ">", ">", "+", "[", "<", "]", "<", "-",
       "]", ">", ">", ".", ">", "-", "-", "-", ".", "+", "+", "+",
       "+", "+", "+", "+", ".", ".", "+", "+", "+", ".", ">", ">",
       ".", "<", "-", ".", "<", ".", "+", "+", "+", ".", "-", "-",
       "-", "-", "-", "-", ".", "-", "-", "-", "-", "-", "-", "-",
       "-", ".", ">", ">", "+", ".", ">", "+", "+", "." >>

\* "Hello World!\n" as character codes
HelloOutput == <<72, 101, 108, 108, 111, 32, 87, 111, 114, 108, 100, 33, 10>>

Inputs == [1..MaxInputLen -> InputChars]

TapeLens == 1..MaxTapeLen

\* the inputs of the unit tests extra_left_parens, extra_right_parens and
\* loop_boundaries
ExampleSources ==
    { <<"[", "[", "]">>,
      <<"+", "[", "[", "]">>,
      <<"[", "]", "+", "+", "[", ".", "[", "]">>,
      <<"[", "]", "[", "[", "]", "]", "[">>,
      <<"[", "]", "[", "[", "[", "]", "]", "[", "]">>,
      <<"]">>,
      <<".", "[", "[", "]", "]", "]">>,
      <<".", "[", "[", "]", "]", "]", "]">>,
      <<"[", "]", ".", "]", "[", "]", "[", "]">>,
      <<"[", "]", "[", "]", "[", "]", "]", "[", "]">>,
      <<"[", "]">>,
      <<"+", "[", "[", "]", "]">>,
      <<"+", "[", "]", "[", "]">>,
      <<"[", "[", "+", "]", "[", "]", "-", "]">> }

MatchSources == SeqsUpTo(MatchAlphabet, MaxMatchLen) \cup ExampleSources

EmptyMap == <<>>

MapInsert(m, k, v) == (k :> v) @@ m

(***************************************************************************)
(* LoopCode: the classification the matchers ask of an item.               *)
(***************************************************************************)
StrLoopCode(s) ==
    IF s = "[" THEN "start" ELSE IF s = "]" THEN "end" ELSE "neither"

ByteCodeLoopCode(bc) ==
    IF bc.kind = "LoopStartJumpIfDataZero" THEN "start"
    ELSE IF bc.kind = "LoopEndJumpIfDataNotZero" THEN "end"
    ELSE "neither"

\* what the matcher sees of a token sequence, and of a byte code sequence
StrLoopCodes(items) == [i \in 1..Len(items) |-> StrLoopCode(items[i])]

ByteCodeLoopCodes(items) == [i \in 1..Len(items) |-> ByteCodeLoopCode(items[i])]

(***************************************************************************)
(* utility.rs populate_loop_boundaries: Result<LoopMatches, ExtraParen>.   *)
(* codes is the sequence of loop codes, idx the 0-based scan position; the *)
(* scan state holds the stack of pending starts and the two maps.          *)
(***************************************************************************)
ScanStart == [tag |-> "Scan", starts |-> <<>>,
              start_to_end |-> EmptyMap, end_to_start |-> EmptyMap]

\* starts.push(idx)
plb_on_start(st, idx) == [st EXCEPT !.starts = Append(@, idx)]

\* variant of plb_on_end that steps over an end with no pending start
plb_on_end_skip(st, idx) ==
    IF st.starts = <<>>
    THEN st
    ELSE LET start_idx == st.starts[Len(st.starts)]
         IN  [tag |-> "Scan",
              starts |-> SubSeq(st.starts, 1, Len(st.starts) - 1),
              start_to_end |-> MapInsert(st.start_to_end, start_idx, idx),
              end_to_start |-> MapInsert(st.end_to_start, idx, start_idx)]

\* variant of plb_on_end that takes the oldest pending start (a queue in
\* place of the stack)
plb_on_end_oldest(st, idx) ==
    IF st.starts = <<>>
    THEN [tag |-> "Err", side |-> "Right", index |-> idx]
    ELSE LET start_idx == st.starts[1]
         IN  IF start_idx \in DOMAIN st.start_to_end \/ idx \in DOMAIN st.end_to_start
             THEN [tag |-> "Panic"]
             ELSE [tag |-> "Scan",
                   starts |-> Tail(st.starts),
                   start_to_end |-> MapInsert(st.start_to_end, start_idx, idx),
                   end_to_start |-> MapInsert(st.end_to_start, idx, start_idx)]

\* variant of plb_on_end whose second insert repeats the arguments of the first
plb_on_end_same_key(st, idx) ==
    IF st.starts = <<>>
    THEN [tag |-> "Err", side |-> "Right", index |-> idx]
    ELSE LET start_idx == st.starts[Len(st.starts)]
         IN  [tag |-> "Scan",
              starts |-> SubSeq(st.starts, 1, Len(st.starts) - 1),
              start_to_end |-> MapInsert(st.start_to_end, start_idx, idx),
              end_to_start |-> MapInsert(st.end_to_start, start_idx, idx)]

\* starts.pop().ok_or(ExtraParen::Right(idx))?, then the two inserts, each
\* followed by assert!(existed.is_none())
plb_on_end(st, idx) ==
    IF st.starts = <<>>
    THEN [tag |-> "Err", side |-> "Right", index |-> idx]
    ELSE LET start_idx == st.starts[Len(st.starts)]
         IN  IF start_idx \in DOMAIN st.start_to_end \/ idx \in DOMAIN st.end_to_start
             THEN [tag |-> "Panic"]
             ELSE [tag |-> "Scan",
                   starts |-> SubSeq(st.starts, 1, Len(st.starts) - 1),
                   start_to_end |-> MapInsert(st.start_to_end, start_idx, idx),
                   end_to_start |-> MapInsert(st.end_to_start, idx, start_idx)]

\* variant of plb_finish that reports starts.first()
plb_finish_first(st) ==
    IF st.starts # <<>>
    THEN [tag |-> "Err", side |-> "Left", index |-> st.starts[1]]
    ELSE [tag |-> "Ok", start_to_end |-> st.start_to_end,
          end_to_start |-> st.end_to_start]

\* after the loop: Err(ExtraParen::Left(*starts.last().unwrap())) or Ok
plb_finish(st) ==
    IF st.starts # <<>>
    THEN [tag |-> "Err", side |-> "Left", index |-> st.starts[Len(st.starts)]]
    ELSE [tag |-> "Ok", start_to_end |-> st.start_to_end,
          end_to_start |-> st.end_to_start]

RECURSIVE plb_scan(_, _, _)
plb_scan(codes, idx, st) ==
    IF st.tag # "Scan" THEN st
    ELSE IF idx = Len(codes) THEN plb_finish(st)
    ELSE plb_scan(codes, idx + 1,
                  IF codes[idx + 1] = "start" THEN plb_on_start(st, idx)
                  ELSE IF codes[idx + 1] = "end" THEN plb_on_end(st, idx)
                  ELSE st)

populate_loop_boundaries(codes) == plb_scan(codes, 0, ScanStart)

(***************************************************************************)
(* source_file.rs populate_byte_codes_loop_boundaries: the matcher that    *)
(* eval_source_file and to_byte_codes call.  starts.pop().unwrap() panics  *)
(* on an end with no pending start; pending starts left after the scan are *)
(* not looked at.                                                          *)
(***************************************************************************)
bclb_on_start(st, idx) == [st EXCEPT !.starts = Append(@, idx)]

bclb_on_end(st, idx) ==
    IF st.starts = <<>>
    THEN [tag |-> "Panic"]
    ELSE LET start_idx == st.starts[Len(st.starts)]
         IN  IF start_idx \in DOMAIN st.start_to_end \/ idx \in DOMAIN st.end_to_start
             THEN [tag |-> "Panic"]
             ELSE [tag |-> "Scan",
                   starts |-> SubSeq(st.starts, 1, Len(st.starts) - 1),
                   start_to_end |-> MapInsert(st.start_to_end, start_idx, idx),
                   end_to_start |-> MapInsert(st.end_to_start, idx, start_idx)]

bclb_finish(st) ==
    [tag |-> "Ok", start_to_end |-> st.start_to_end,
     end_to_start |-> st.end_to_start]

\* 0-based index of the first start or end at or after idx, or Len(codes)
bclb_next_bracket(codes, idx) ==
    LET B == {j \in idx..(Len(codes) - 1) : codes[j + 1] # "neither"}
    IN  IF B = {} THEN Len(codes) ELSE CHOOSE j \in B : \A k \in B : j <= k

\* the for loop; an item that is neither a start nor an end leaves the
\* locals alone, so the scan goes on at the next item that is one
RECURSIVE bclb_scan(_, _, _)
bclb_scan(codes, idx, st) ==
    LET b == bclb_next_bracket(codes, idx)
    IN  IF st.tag # "Scan" THEN st
        ELSE IF b = Len(codes) THEN bclb_finish(st)
        ELSE bclb_scan(codes, b + 1,
                       IF codes[b + 1] = "start" THEN bclb_on_start(st, b)
                       ELSE bclb_on_end(st, b))

populate_byte_codes_loop_boundaries(codes) == bclb_scan(codes, 0, ScanStart)

(***************************************************************************)
(* SourceFile::lex.  A text is a Rust String: the UTF-8 bytes of its       *)
(* characters.  grapheme_indices walks the characters and cuts the text    *)
(* into extended grapheme clusters, yielding the byte offset and the bytes *)
(* of each; lex keeps the offset and the byte length.                      *)
(***************************************************************************)
\* '+', '[', 'a', LF, CR, e-acute, a combining mark, the euro sign
LexChars == {43, 91, 97, 10, 13, 233, 784, 8364}

\* the text of the unit test unicode
UnicodeTestText == <<46, 97, 784, 101, 769, 111, 776, 818, 46, 10, 91, 43, 45, 93>>

\* char::encode_utf8, for characters of at most three bytes
Utf8(ch) ==
    IF ch < 128 THEN <<ch>>
    ELSE IF ch < 2048 THEN <<192 + (ch \div 64), 128 + (ch % 64)>>
    ELSE <<224 + (ch \div 4096), 128 + ((ch \div 64) % 64), 128 + (ch % 64)>>

\* the String made of the characters chs
RECURSIVE Utf8String(_)
Utf8String(chs) ==
    IF chs = <<>> THEN <<>> ELSE Utf8(Head(chs)) \o Utf8String(Tail(chs))

\* number of bytes of the character whose first byte is b
Utf8Width(b) == IF b < 128 THEN 1 ELSE IF b < 224 THEN 2 ELSE 3

\* the character that starts at byte offset i of raw
CharAt(raw, i) ==
    LET b == raw[i + 1]
    IN  IF b < 128 THEN b
        ELSE IF b < 224 THEN (b - 192) * 64 + (raw[i + 2] - 128)
        ELSE (b - 224) * 4096 + (raw[i + 2] - 128) * 64 + (raw[i + 3] - 128)

\* Grapheme_Cluster_Break property of a character
GraphemeCat(ch) ==
    IF ch = 13 THEN "CR"
    ELSE IF ch = 10 THEN "LF"
    ELSE IF ch < 32 \/ ch \in 127..159 THEN "Control"
    ELSE IF ch \in 768..879 THEN "Extend"
    ELSE "Any"

\* no cluster boundary between a and b: CR x LF; a break after and before
\* CR, LF and controls; no break before an extending character
NoBreak(a, b) ==
    \/ GraphemeCat(a) = "CR" /\ GraphemeCat(b) = "LF"
    \/ /\ GraphemeCat(a) \notin {"CR", "LF", "Control"}
       /\ GraphemeCat(b) = "Extend"

\* byte offset at which the cluster ends whose last character so far starts at
\* byte offset p
RECURSIVE cluster_end(_, _)
cluster_end(raw, p) ==
    LET n == p + Utf8Width(raw[p + 1])
    IN  IF n >= Len(raw) THEN n
        ELSE IF NoBreak(CharAt(raw, p), CharAt(raw, n)) THEN cluster_end(raw, n)
        ELSE n

\* the (offset, cluster) pairs from byte offset i on, a cluster given by its
\* byte length
RECURSIVE grapheme_indices(_, _)
grapheme_indices(raw, i) ==
    IF i >= Len(raw) THEN <<>>
    ELSE LET e == cluster_end(raw, i)
         IN  << [idx_in_raw |-> i, length |-> e - i] >> \o grapheme_indices(raw, e)

\* number of characters that start in the bytes raw[from .. to - 1]
CharCount(raw, from, to) ==
    Cardinality({k \in (from + 1)..to : raw[k] < 128 \/ raw[k] >= 192})

\* variant of lex that takes a cluster's length in characters
lex_length_in_chars(raw) ==
    LET g == grapheme_indices(raw, 0)
    IN  [k \in 1..Len(g) |->
           [idx_in_raw |-> g[k].idx_in_raw,
            length |-> CharCount(raw, g[k].idx_in_raw,
                                 g[k].idx_in_raw + g[k].length)]]

\* variant of lex that takes a cluster's offset in characters
lex_offset_in_chars(raw) ==
    LET g == grapheme_indices(raw, 0)
    IN  [k \in 1..Len(g) |->
           [idx_in_raw |-> CharCount(raw, 0, g[k].idx_in_raw),
            length |-> g[k].length]]

lex(raw) == grapheme_indices(raw, 0)

\* SourceFile::get_token: &raw_content[idx_in_raw..idx_in_raw + length]
get_token(raw, uc) == SubSeq(raw, uc.idx_in_raw + 1, uc.idx_in_raw + uc.length)

(***************************************************************************)
(* Lexer view of the token sequence: a token's byte length and its byte    *)
(* offset in the raw text (UnicodeChar.length, UnicodeChar.idx_in_raw).    *)
(***************************************************************************)
\* stands for a grapheme cluster of two bytes that is no instruction symbol
MultiByte == "mb"

ByteLen(t) == IF t \in {"\r\n", MultiByte} THEN 2 ELSE 1

\* a Token is one or two bytes long: every Token before idx counts one byte,
\* the two-byte ones one more
idx_in_raw(content, idx) ==
    idx + Cardinality({i \in 1..idx : ByteLen(content[i]) = 2})

(***************************************************************************)
(* SourceFile::to_byte_codes                                               *)
(***************************************************************************)
symbols ==
    ("+" :> "IncData") @@ ("-" :> "DecData") @@ (">" :> "IncPtr") @@
    ("<" :> "DecPtr") @@ ("." :> "Write") @@ ("," :> "Read")

None == -1

unwrap_or(opt, default) == IF opt = None THEN default ELSE opt

\* variant of position_ne that looks through comment characters
RECURSIVE position_ne_through_comments(_, _, _, _)
position_ne_through_comments(content, idx, s, j) ==
    IF idx + j >= Len(content) THEN None
    ELSE IF content[idx + j + 1] \notin {s, "c"} THEN j
    ELSE position_ne_through_comments(content, idx, s, j + 1)

\* self.content[idx..].iter().position(|e| self.get_token(e) != s)
RECURSIVE position_ne(_, _, _, _)
position_ne(content, idx, s, j) ==
    IF idx + j >= Len(content) THEN None
    ELSE IF content[idx + j + 1] # s THEN j
    ELSE position_ne(content, idx, s, j + 1)

run_arg(content, idx, s) == unwrap_or(position_ne(content, idx, s, 0), 1)

make_range_for_token(row, column, offset) ==
    << [row |-> row, column |-> column, offset |-> offset],
       [row |-> row, column |-> column + 1, offset |-> offset + 1] >>

\* variant of make_byte_code that records the column after the run
make_byte_code_col_after(arg, kind, row, col, offset) ==
    [code |-> [kind |-> kind, arg |-> arg,
               range |-> make_range_for_token(row, col + arg, offset)],
     col |-> col + arg]

\* returns the byte code and the updated column (*col += arg)
make_byte_code(arg, kind, row, col, offset) ==
    [code |-> [kind |-> kind, arg |-> arg,
               range |-> make_range_for_token(row, (col + arg) - arg, offset)],
     col |-> col + arg]

\* the locals of to_byte_codes before its loop
TbcStart == [idx |-> 0, row |-> 0, col |-> 0, byte_codes |-> <<>>]

\* variant of tbc_step whose bracket arms take the length of the run of
\* brackets as the other arms do
tbc_step_bracket_runs(content, st) ==
    LET s == content[st.idx + 1]
        cur_offset == idx_in_raw(content, st.idx)
        arg == run_arg(content, st.idx, s)
    IN  IF s \in DOMAIN symbols \cup {"[", "]"}
        THEN LET kind == IF s = "[" THEN "LoopStartJumpIfDataZero"
                         ELSE IF s = "]" THEN "LoopEndJumpIfDataNotZero"
                         ELSE symbols[s]
                 mk == make_byte_code(arg, kind, st.row, st.col, cur_offset)
             IN  [idx |-> st.idx + arg, row |-> st.row, col |-> mk.col,
                  byte_codes |-> Append(st.byte_codes, mk.code)]
        ELSE IF s \in {"\r\n", "\n"}
        THEN [st EXCEPT !.idx = @ + 1, !.row = @ + 1, !.col = 0]
        ELSE [st EXCEPT !.idx = @ + 1, !.col = @ + 1]

\* one pass through the body of the while loop: the match on the Token at idx
tbc_step(content, st) ==
    LET s == content[st.idx + 1]
        cur_offset == idx_in_raw(content, st.idx)
    IN  IF s \in DOMAIN symbols
        THEN LET arg == run_arg(content, st.idx, s)
                 mk == make_byte_code(arg, symbols[s], st.row, st.col, cur_offset)
             IN  [idx |-> st.idx + arg, row |-> st.row, col |-> mk.col,
                  byte_codes |-> Append(st.byte_codes, mk.code)]
        ELSE IF s = "["
        THEN LET mk == make_byte_code(1, "LoopStartJumpIfDataZero", st.row,
                                      st.col, cur_offset)
             IN  [idx |-> st.idx + 1, row |-> st.row, col |-> mk.col,
                  byte_codes |-> Append(st.byte_codes, mk.code)]
        ELSE IF s = "]"
        THEN LET mk == make_byte_code(1, "LoopEndJumpIfDataNotZero", st.row,
                                      st.col, cur_offset)
             IN  [idx |-> st.idx + 1, row |-> st.row, col |-> mk.col,
                  byte_codes |-> Append(st.byte_codes, mk.code)]
        ELSE IF s \in {"\r\n", "\n"}
        THEN [st EXCEPT !.idx = @ + 1, !.row = @ + 1, !.col = 0]
        ELSE [st EXCEPT !.idx = @ + 1, !.col = @ + 1]

\* while idx < self.content.len() { ... }; st holds idx, row, col, byte_codes
RECURSIVE tbc_scan(_, _)
tbc_scan(content, st) ==
    IF ~(st.idx < Len(content)) THEN st.byte_codes
    ELSE tbc_scan(content, tbc_step(content, st))

\* variant of patch_jumps that sends a loop end to the instruction after
\* its loop start
patch_jumps_end_after_start(scanned, m) ==
    IF \E i \in 0..(Len(scanned) - 1) :
          \/ /\ ByteCodeLoopCode(scanned[i + 1]) = "start"
             /\ i \notin DOMAIN m.start_to_end
          \/ /\ ByteCodeLoopCode(scanned[i + 1]) = "end"
             /\ i \notin DOMAIN m.end_to_start
    THEN [tag |-> "Panic"]
    ELSE [tag |-> "Ok",
          byte_codes |->
            [i \in 1..Len(scanned) |->
               IF ByteCodeLoopCode(scanned[i]) = "start"
               THEN [scanned[i] EXCEPT !.arg = m.start_to_end[i - 1]]
               ELSE IF ByteCodeLoopCode(scanned[i]) = "end"
               THEN [scanned[i] EXCEPT !.arg = m.end_to_start[i - 1] + 1]
               ELSE scanned[i]]]

\* variant of patch_jumps that patches the loop starts only
patch_jumps_starts_only(scanned, m) ==
    IF \E i \in 0..(Len(scanned) - 1) :
          /\ ByteCodeLoopCode(scanned[i + 1]) = "start"
          /\ i \notin DOMAIN m.start_to_end
    THEN [tag |-> "Panic"]
    ELSE [tag |-> "Ok",
          byte_codes |->
            [i \in 1..Len(scanned) |->
               IF ByteCodeLoopCode(scanned[i]) = "start"
               THEN [scanned[i] EXCEPT !.arg = m.start_to_end[i - 1]]
               ELSE scanned[i]]]

\* the patch pass: *arg = *start_to_end.get(&i).unwrap() panics on a jump
\* the matcher left without an entry
patch_jumps(scanned, m) ==
    IF \E i \in 0..(Len(scanned) - 1) :
          \/ /\ ByteCodeLoopCode(scanned[i + 1]) = "start"
             /\ i \notin DOMAIN m.start_to_end
          \/ /\ ByteCodeLoopCode(scanned[i + 1]) = "end"
             /\ i \notin DOMAIN m.end_to_start
    THEN [tag |-> "Panic"]
    ELSE [tag |-> "Ok",
          byte_codes |->
            [i \in 1..Len(scanned) |->
               IF ByteCodeLoopCode(scanned[i]) = "start"
               THEN [scanned[i] EXCEPT !.arg = m.start_to_end[i - 1]]
               ELSE IF ByteCodeLoopCode(scanned[i]) = "end"
               THEN [scanned[i] EXCEPT !.arg = m.end_to_start[i - 1]]
               ELSE scanned[i]]]

\* variant of to_byte_codes whose vector starts with self.len() default
\* entries instead of that capacity
to_byte_codes_prefilled(content) ==
    LET scanned == tbc_scan(content,
                            [TbcStart EXCEPT !.byte_codes =
                               [i \in 1..Len(content) |->
                                  [kind |-> "IncData", arg |-> 0,
                                   range |-> make_range_for_token(0, 0, 0)]]])
        m == populate_byte_codes_loop_boundaries(ByteCodeLoopCodes(scanned))
    IN  IF m.tag = "Panic" THEN [tag |-> "Panic"] ELSE patch_jumps(scanned, m)

to_byte_codes(content) ==
    LET scanned == tbc_scan(content, TbcStart)
        m == populate_byte_codes_loop_boundaries(ByteCodeLoopCodes(scanned))
    IN  IF m.tag = "Panic" THEN [tag |-> "Panic"] ELSE patch_jumps(scanned, m)


(***************************************************************************)
(* State.                                                                  *)
(*   tokens        the lexed source (SourceFile.content, as token texts)   *)
(*   input, in_pos the IO port's input stream and how much of it in_char   *)
(*                 has consumed                                            *)
(*   out_buf       what the IO port has been asked to emit                 *)
(*   cells, data_ptr, instr_ptr   the fields of Machine                    *)
(*   panicked      the running call has panicked (an unwrap on None)       *)
(*   start_to_end, end_to_start   the locals of eval_source_file           *)
(*   byte_codes    the result of to_byte_codes                             *)
(*   direct_result what eval_source_file left behind, kept for comparison  *)
(*   last_op       the instruction executed last and the state it acted on *)
(*   plb_result, bclb_result      results of the two loop matchers         *)
(*   op_count, add_run            call counters of the method-level runs   *)
(*   steps         number of steps the running evaluation has taken        *)
(*   compile_result what to_byte_codes returned, or that it panicked        *)
(*   outputs       mode, source and output of every finished evaluation     *)
(*   raw_content, unicode_chars   the text given to lex and what it returns *)
(*   acc           the string the token texts are pushed onto              *)
(*   idx_in_src    position of the iterator over the lexed tokens          *)
(*   pc            position of the driver                                  *)
(***************************************************************************)
VARIABLES tokens, input, in_pos, out_buf, cells, data_ptr, instr_ptr, panicked,
          start_to_end, end_to_start, byte_codes, direct_result, last_op,
          plb_result, bclb_result, op_count, add_run, steps, pc,
          compile_result, outputs, raw_content, unicode_chars, acc, idx_in_src,
          instr_tracing, trace_hist

vars == << tokens, input, in_pos, out_buf, cells, data_ptr, instr_ptr, panicked,
           start_to_end, end_to_start, byte_codes, direct_result, last_op,
           plb_result, bclb_result, op_count, add_run, steps, pc,
           compile_result, outputs, raw_content, unicode_chars, acc, idx_in_src,
           instr_tracing, trace_hist >>

\* the state of the lexer run
LexVars == << raw_content, unicode_chars, acc, idx_in_src >>

\* the instruction tracing collector and the record of the calls made on it
TracingVars == << instr_tracing, trace_hist >>

(***************************************************************************)
(* utility.rs, mod tracing: InstructionTracingCollector.  The field c is   *)
(* the HashMap from a registered name to its count (u128, far above every  *)
(* count of the model); panicked records that a call has panicked.         *)
(***************************************************************************)

\* names an add call may carry; the unit tests register "a" and "b" and
\* add "c"
TraceNames == {"a", "b", "c"}

\* the machine is built without the instr_tracing feature
NoCollector == [c |-> EmptyMap, panicked |-> FALSE]

\* InstructionTracingCollector::new(codes): every name is inserted with 0
itc_new(codes) ==
    [c |-> [n \in {codes[i] : i \in 1..Len(codes)} |-> 0], panicked |-> FALSE]

\* add with the contains_key test removed: entry().and_modify() on a
\* missing key changes nothing and returns
itc_add_unchecked(self, name) ==
    IF name \notin DOMAIN self.c
    THEN self
    ELSE [self EXCEPT !.c[name] = @ + 1]

\* InstructionTracingCollector::add(name)
itc_add(self, name) ==
    IF name \notin DOMAIN self.c
    THEN [self EXCEPT !.panicked = TRUE]
    ELSE [self EXCEPT !.c[name] = @ + 1]

\* a filter that lets every entry through
itc_filter_all(self) == {<<n, self.c[n]>> : n \in DOMAIN self.c}

\* finalize: self.c.iter().filter(|(_, &v)| v > 0)
itc_filter(self) ==
    {<<n, self.c[n]>> : n \in {m \in DOMAIN self.c : self.c[m] > 0}}

\* finalize: vec.sort_by_key(|(_, &v)| Reverse(v)).  The sort is stable and
\* the HashMap iterates in an unspecified order, so entries of equal count
\* may come out in any order.
itc_sorted(entries) ==
    {s \in [1..Cardinality(entries) -> entries] :
        /\ \A i, j \in DOMAIN s : i # j => s[i] # s[j]
        /\ \A i, j \in DOMAIN s : i < j => s[i][2] >= s[j][2]}

\* a finalize that leaves the counts as they are
itc_reset_keep(self) == self

\* finalize: self.c.values_mut().for_each(|v| *v = 0)
itc_reset(self) == [self EXCEPT !.c = [n \in DOMAIN self.c |-> 0]]

\* no add call counted for any name
NoAdds == [n \in TraceNames |-> 0]

\* no call made on the collector yet
NoTrace == [op |-> "none", name |-> "", prev_op |-> "none", c |-> EmptyMap,
            adds |-> NoAdds, adds_before |-> NoAdds, report |-> <<>>,
            calls |-> 0]

NoOp == [kind |-> "none", arg |-> 0, cells |-> <<>>, data_ptr |-> 0,
         instr_ptr |-> 0, out_buf |-> <<>>, in_pos |-> 0]

\* the instruction about to run, with the state it runs on
Op(kind, arg) == [kind |-> kind, arg |-> arg, cells |-> cells,
                  data_ptr |-> data_ptr, instr_ptr |-> instr_ptr,
                  out_buf |-> out_buf, in_pos |-> in_pos]

NoResult == [tag |-> "none"]

\* how far an evaluation is followed: the Hello World program to its end
StepLimit == IF tokens = HelloWorld THEN MaxHelloSteps ELSE MaxSteps

NoDirectResult == [out_buf |-> <<>>, in_pos |-> 0, panicked |-> FALSE,
                   cells |-> <<>>, data_ptr |-> 0]

(***************************************************************************)
(* Machine                                                                 *)
(***************************************************************************)
reset_data_ptr(cell_size) == cell_size \div 2

reset_instr_ptr == 0

\* Machine::with_io
with_io(cell_size) ==
    /\ cells = [i \in 1..cell_size |-> 0]
    /\ data_ptr = reset_data_ptr(cell_size)
    /\ instr_ptr = reset_instr_ptr
    /\ out_buf = <<>>
    /\ in_pos = 0
    /\ panicked = FALSE

\* MachineIO::flush_all of the test port: out_buf.clear()
flush_all == out_buf' = <<>>

\* variant of reset that empties the tape (Vec::clear) instead of zeroing it
reset_clear_cells ==
    /\ cells' = <<>>
    /\ data_ptr' = reset_data_ptr(0)
    /\ instr_ptr' = reset_instr_ptr
    /\ flush_all

\* variant of reset that leaves the data pointer where it is
reset_keep_data_ptr ==
    /\ cells' = [i \in 1..Len(cells) |-> 0]
    /\ data_ptr' = data_ptr
    /\ instr_ptr' = reset_instr_ptr
    /\ flush_all

\* variant of reset that leaves the cells as they are
reset_keep_cells ==
    /\ cells' = cells
    /\ data_ptr' = reset_data_ptr(Len(cells))
    /\ instr_ptr' = reset_instr_ptr
    /\ flush_all

reset ==
    /\ cells' = [i \in 1..Len(cells) |-> 0]
    /\ data_ptr' = reset_data_ptr(Len(cells))
    /\ instr_ptr' = reset_instr_ptr
    /\ flush_all

\* usize::wrapping_add, usize::wrapping_sub
wrapping_add_usize(a, b) == (a + b) % UsizeModulus

wrapping_sub_usize(a, b) == (a + UsizeModulus - (b % UsizeModulus)) % UsizeModulus

\* variant of as_u8 that saturates: a value above 255 becomes 255
as_u8_saturating(x) == IF x >= CellModulus THEN CellModulus - 1 ELSE x

\* arg as CellDataType, char as CellDataType
as_u8(x) == x % CellModulus

\* u8::wrapping_add, u8::wrapping_sub
wrapping_add_u8(a, b) == (a + b) % CellModulus

wrapping_sub_u8(a, b) == (a + CellModulus - b) % CellModulus

\* self.cells.get(self.data_ptr) is Some
cell_in_range == data_ptr < Len(cells)

\* the unwrap of a None: the call unwinds, the fields keep their values
unwrap_panic ==
    /\ panicked' = TRUE
    /\ UNCHANGED << cells, data_ptr, instr_ptr, out_buf >>

\* variant of out_char_n_times that emits the character once
out_char_once(c, n) == out_buf' = Append(out_buf, c)

\* MachineIO::out_char_n_times
out_char_n_times(c, n) == out_buf' = out_buf \o [i \in 1..n |-> c]

write(arg) ==
    /\ UNCHANGED in_pos
    /\ IF cell_in_range
       THEN /\ out_char_n_times(cells[data_ptr + 1], arg)
            /\ instr_ptr' = instr_ptr + 1
            /\ UNCHANGED << cells, data_ptr, panicked >>
       ELSE unwrap_panic

\* variant of read that stores the character in the first cell of the tape
read_into_first_cell(arg) ==
    /\ in_pos < Len(input)
    /\ in_pos' = in_pos + 1
    /\ IF cell_in_range
       THEN /\ cells' = [cells EXCEPT ![1] = as_u8(input[in_pos + 1])]
            /\ instr_ptr' = instr_ptr + 1
            /\ UNCHANGED << data_ptr, out_buf, panicked >>
       ELSE unwrap_panic

\* variant of read that takes one character per unit of its operand
read_arg_chars(arg) ==
    /\ in_pos + arg <= Len(input)
    /\ in_pos' = in_pos + arg
    /\ IF cell_in_range
       THEN /\ cells' = [cells EXCEPT ![data_ptr + 1] = as_u8(input[in_pos + arg])]
            /\ instr_ptr' = instr_ptr + 1
            /\ UNCHANGED << data_ptr, out_buf, panicked >>
       ELSE unwrap_panic

\* in_char blocks until a character is available; it is called before the
\* cell is looked up
read(arg) ==
    /\ in_pos < Len(input)
    /\ in_pos' = in_pos + 1
    /\ IF cell_in_range
       THEN /\ cells' = [cells EXCEPT ![data_ptr + 1] = as_u8(input[in_pos + 1])]
            /\ instr_ptr' = instr_ptr + 1
            /\ UNCHANGED << data_ptr, out_buf, panicked >>
       ELSE unwrap_panic

\* variant of inc_ptr that moves the instruction pointer by its operand too
inc_ptr_skip_arg(arg) ==
    /\ data_ptr' = wrapping_add_usize(data_ptr, arg)
    /\ instr_ptr' = instr_ptr + arg
    /\ UNCHANGED << cells, out_buf, in_pos, panicked >>

inc_ptr(arg) ==
    /\ data_ptr' = wrapping_add_usize(data_ptr, arg)
    /\ instr_ptr' = instr_ptr + 1
    /\ UNCHANGED << cells, out_buf, in_pos, panicked >>

dec_ptr(arg) ==
    /\ data_ptr' = wrapping_sub_usize(data_ptr, arg)
    /\ instr_ptr' = instr_ptr + 1
    /\ UNCHANGED << cells, out_buf, in_pos, panicked >>

\* variant of inc_data that adds with + : the overflow panics
inc_data_checked(arg) ==
    /\ UNCHANGED in_pos
    /\ IF cell_in_range /\ cells[data_ptr + 1] + as_u8(arg) < CellModulus
       THEN /\ cells' = [cells EXCEPT ![data_ptr + 1] = @ + as_u8(arg)]
            /\ instr_ptr' = instr_ptr + 1
            /\ UNCHANGED << data_ptr, out_buf, panicked >>
       ELSE unwrap_panic

inc_data(arg) ==
    /\ UNCHANGED in_pos
    /\ IF cell_in_range
       THEN /\ cells' = [cells EXCEPT ![data_ptr + 1] = wrapping_add_u8(@, as_u8(arg))]
            /\ instr_ptr' = instr_ptr + 1
            /\ UNCHANGED << data_ptr, out_buf, panicked >>
       ELSE unwrap_panic

dec_data(arg) ==
    /\ UNCHANGED in_pos
    /\ IF cell_in_range
       THEN /\ cells' = [cells EXCEPT ![data_ptr + 1] = wrapping_sub_u8(@, as_u8(arg))]
            /\ instr_ptr' = instr_ptr + 1
            /\ UNCHANGED << data_ptr, out_buf, panicked >>
       ELSE unwrap_panic

\* variant of loop_start_jump_if_data_zero that lands on the loop end itself
loop_start_jump_onto_end(end_ptr) ==
    /\ UNCHANGED in_pos
    /\ IF cell_in_range
       THEN /\ instr_ptr' = IF cells[data_ptr + 1] = 0 THEN end_ptr
                            ELSE instr_ptr + 1
            /\ UNCHANGED << cells, data_ptr, out_buf, panicked >>
       ELSE unwrap_panic

loop_start_jump_if_data_zero(end_ptr) ==
    /\ UNCHANGED in_pos
    /\ IF cell_in_range
       THEN /\ instr_ptr' = IF cells[data_ptr + 1] = 0 THEN end_ptr + 1
                            ELSE instr_ptr + 1
            /\ UNCHANGED << cells, data_ptr, out_buf, panicked >>
       ELSE unwrap_panic

\* variant of loop_end_jump_if_data_not_zero that goes back on a zero cell
loop_end_jump_if_data_zero(start_ptr) ==
    /\ UNCHANGED in_pos
    /\ IF cell_in_range
       THEN /\ instr_ptr' = IF cells[data_ptr + 1] = 0 THEN start_ptr
                            ELSE instr_ptr + 1
            /\ UNCHANGED << cells, data_ptr, out_buf, panicked >>
       ELSE unwrap_panic

loop_end_jump_if_data_not_zero(start_ptr) ==
    /\ UNCHANGED in_pos
    /\ IF cell_in_range
       THEN /\ instr_ptr' = IF cells[data_ptr + 1] # 0 THEN start_ptr
                            ELSE instr_ptr + 1
            /\ UNCHANGED << cells, data_ptr, out_buf, panicked >>
       ELSE unwrap_panic

(***************************************************************************)
(* Machine::eval_source_file                                               *)
(***************************************************************************)
EvalFrame == << tokens, input, byte_codes, direct_result, plb_result,
                bclb_result, op_count, add_run, compile_result, outputs,
                raw_content, unicode_chars, acc, idx_in_src,
                instr_tracing, trace_hist >>

EvalSourceFileEnter ==
    /\ pc = "init"
    /\ reset
    /\ in_pos' = 0
    /\ LET m == populate_byte_codes_loop_boundaries(StrLoopCodes(tokens))
       IN  IF m.tag = "Panic"
           THEN /\ panicked' = TRUE
                /\ UNCHANGED << start_to_end, end_to_start >>
           ELSE /\ panicked' = FALSE
                /\ start_to_end' = m.start_to_end
                /\ end_to_start' = m.end_to_start
    /\ last_op' = NoOp
    /\ steps' = 0
    /\ pc' = "direct"
    /\ UNCHANGED EvalFrame

DirectAt(tok) ==
    /\ pc = "direct"
    /\ ~panicked
    /\ instr_ptr < Len(tokens)
    /\ tokens[instr_ptr + 1] = tok
    /\ steps < StepLimit
    /\ steps' = steps + 1
    /\ UNCHANGED << pc, start_to_end, end_to_start >>
    /\ UNCHANGED EvalFrame

DirectWrite == DirectAt(".") /\ write(1) /\ last_op' = Op("Write", 1)

DirectRead == DirectAt(",") /\ read(1) /\ last_op' = Op("Read", 1)

DirectIncPtr == DirectAt(">") /\ inc_ptr(1) /\ last_op' = Op("IncPtr", 1)

DirectDecPtr == DirectAt("<") /\ dec_ptr(1) /\ last_op' = Op("DecPtr", 1)

DirectIncData == DirectAt("+") /\ inc_data(1) /\ last_op' = Op("IncData", 1)

DirectDecData == DirectAt("-") /\ dec_data(1) /\ last_op' = Op("DecData", 1)

\* the operand start_to_end.get(&self.instr_ptr).unwrap() is evaluated
\* before the call
DirectLoopStart ==
    /\ DirectAt("[")
    /\ IF instr_ptr \in DOMAIN start_to_end
       THEN loop_start_jump_if_data_zero(start_to_end[instr_ptr])
       ELSE unwrap_panic /\ UNCHANGED in_pos
    /\ last_op' = Op("LoopStartJumpIfDataZero",
                     IF instr_ptr \in DOMAIN start_to_end
                     THEN start_to_end[instr_ptr] ELSE None)

DirectLoopEnd ==
    /\ DirectAt("]")
    /\ IF instr_ptr \in DOMAIN end_to_start
       THEN loop_end_jump_if_data_not_zero(end_to_start[instr_ptr])
       ELSE unwrap_panic /\ UNCHANGED in_pos
    /\ last_op' = Op("LoopEndJumpIfDataNotZero",
                     IF instr_ptr \in DOMAIN end_to_start
                     THEN end_to_start[instr_ptr] ELSE None)

\* variant of DirectOther that treats the Token as a move forward
DirectOtherMoves ==
    /\ \E tok \in Alphabet \ (DOMAIN symbols \cup {"[", "]"}) : DirectAt(tok)
    /\ inc_ptr(1)
    /\ last_op' = Op("Other", 0)

DirectOther ==
    /\ \E tok \in Alphabet \ (DOMAIN symbols \cup {"[", "]"}) : DirectAt(tok)
    /\ instr_ptr' = instr_ptr + 1
    /\ last_op' = Op("Other", 0)
    /\ UNCHANGED << cells, data_ptr, out_buf, in_pos, panicked >>

\* the loop condition fails, or the panic leaves the call
EvalSourceFileEnd ==
    /\ pc = "direct"
    /\ panicked \/ ~(instr_ptr < Len(tokens))
    /\ direct_result' = [out_buf |-> out_buf, in_pos |-> in_pos,
                         panicked |-> panicked, cells |-> cells,
                         data_ptr |-> data_ptr]
    /\ outputs' = Append(outputs, [mode |-> "direct", tokens |-> tokens,
                                   out_buf |-> out_buf, panicked |-> panicked])
    /\ pc' = "direct_done"
    /\ UNCHANGED << tokens, input, in_pos, out_buf, cells, data_ptr, instr_ptr,
                    panicked, start_to_end, end_to_start, byte_codes, last_op,
                    plb_result, bclb_result, op_count, add_run, steps,
                    compile_result >>
    /\ UNCHANGED LexVars
    /\ UNCHANGED TracingVars

(***************************************************************************)
(* to_byte_codes, then Machine::eval_byte_codes on the same machine        *)
(***************************************************************************)
ToByteCodes ==
    /\ pc = "direct_done"
    /\ LET r == to_byte_codes(tokens)
       IN  IF r.tag = "Panic"
           THEN pc' = "compile_panicked" /\ byte_codes' = <<>>
           ELSE pc' = "compiled_ready" /\ byte_codes' = r.byte_codes
    /\ compile_result' = [tag |-> to_byte_codes(tokens).tag]
    /\ UNCHANGED << tokens, input, in_pos, out_buf, cells, data_ptr, instr_ptr,
                    panicked, start_to_end, end_to_start, direct_result, last_op,
                    plb_result, bclb_result, op_count, add_run, steps, outputs >>
    /\ UNCHANGED LexVars
    /\ UNCHANGED TracingVars

EvalByteCodesEnter ==
    /\ pc = "compiled_ready"
    /\ reset
    /\ in_pos' = 0
    /\ panicked' = FALSE
    /\ last_op' = NoOp
    /\ steps' = 0
    /\ pc' = "compiled"
    /\ UNCHANGED << start_to_end, end_to_start >>
    /\ UNCHANGED EvalFrame

CompiledAt(kind) ==
    /\ pc = "compiled"
    /\ ~panicked
    /\ instr_ptr < Len(byte_codes)
    /\ byte_codes[instr_ptr + 1].kind = kind
    /\ steps < StepLimit
    /\ steps' = steps + 1
    /\ last_op' = Op(kind, byte_codes[instr_ptr + 1].arg)
    /\ UNCHANGED << pc, start_to_end, end_to_start >>
    /\ UNCHANGED EvalFrame

CompiledWrite == CompiledAt("Write") /\ write(byte_codes[instr_ptr + 1].arg)

CompiledRead == CompiledAt("Read") /\ read(byte_codes[instr_ptr + 1].arg)

CompiledIncPtr == CompiledAt("IncPtr") /\ inc_ptr(byte_codes[instr_ptr + 1].arg)

CompiledDecPtr == CompiledAt("DecPtr") /\ dec_ptr(byte_codes[instr_ptr + 1].arg)

CompiledIncData == CompiledAt("IncData") /\ inc_data(byte_codes[instr_ptr + 1].arg)

CompiledDecData == CompiledAt("DecData") /\ dec_data(byte_codes[instr_ptr + 1].arg)

CompiledLoopStart ==
    /\ CompiledAt("LoopStartJumpIfDataZero")
    /\ loop_start_jump_if_data_zero(byte_codes[instr_ptr + 1].arg)

CompiledLoopEnd ==
    /\ CompiledAt("LoopEndJumpIfDataNotZero")
    /\ loop_end_jump_if_data_not_zero(byte_codes[instr_ptr + 1].arg)

EvalByteCodesEnd ==
    /\ pc = "compiled"
    /\ panicked \/ ~(instr_ptr < Len(byte_codes))
    /\ outputs' = Append(outputs, [mode |-> "compiled", tokens |-> tokens,
                                   out_buf |-> out_buf, panicked |-> panicked])
    /\ pc' = "done"
    /\ UNCHANGED << tokens, input, in_pos, out_buf, cells, data_ptr, instr_ptr,
                    panicked, start_to_end, end_to_start, byte_codes,
                    direct_result, last_op, plb_result, bclb_result, op_count,
                    add_run, steps, compile_result >>
    /\ UNCHANGED LexVars
    /\ UNCHANGED TracingVars

(***************************************************************************)
(* Specification of the end-to-end run: a machine of some tape size        *)
(* evaluates a source directly, the source is compiled, and the same       *)
(* machine evaluates the byte codes on the same input stream.              *)
(***************************************************************************)
Init ==
    /\ tokens \in Sources
    /\ input \in Inputs
    /\ \E cell_size \in TapeLens : with_io(cell_size)
    /\ start_to_end = EmptyMap
    /\ end_to_start = EmptyMap
    /\ byte_codes = <<>>
    /\ direct_result = NoDirectResult
    /\ last_op = NoOp
    /\ plb_result = NoResult
    /\ bclb_result = NoResult
    /\ op_count = 0
    /\ add_run = 0
    /\ steps = 0
    /\ compile_result = NoResult
    /\ outputs = <<>>
    /\ raw_content = <<>>
    /\ unicode_chars = <<>>
    /\ acc = <<>>
    /\ idx_in_src = 0
    /\ instr_tracing = NoCollector
    /\ trace_hist = NoTrace
    /\ pc = "init"

Next ==
    \/ EvalSourceFileEnter
    \/ DirectWrite
    \/ DirectRead
    \/ DirectIncPtr
    \/ DirectDecPtr
    \/ DirectIncData
    \/ DirectDecData
    \/ DirectLoopStart
    \/ DirectLoopEnd
    \/ DirectOther
    \/ EvalSourceFileEnd
    \/ ToByteCodes
    \/ EvalByteCodesEnter
    \/ CompiledWrite
    \/ CompiledRead
    \/ CompiledIncPtr
    \/ CompiledDecPtr
    \/ CompiledIncData
    \/ CompiledDecData
    \/ CompiledLoopStart
    \/ CompiledLoopEnd
    \/ EvalByteCodesEnd

Spec == Init /\ [][Next]_vars


(***************************************************************************)
(* Specification of the end-to-end run on a tape long enough for the Hello *)
(* World program, which is evaluated next to the example programs.         *)
(***************************************************************************)
InitHello ==
    /\ tokens \in {HelloWorld} \cup ExamplePrograms
    /\ input \in Inputs
    /\ with_io(HelloTapeLen)
    /\ start_to_end = EmptyMap
    /\ end_to_start = EmptyMap
    /\ byte_codes = <<>>
    /\ direct_result = NoDirectResult
    /\ last_op = NoOp
    /\ plb_result = NoResult
    /\ bclb_result = NoResult
    /\ op_count = 0
    /\ add_run = 0
    /\ steps = 0
    /\ compile_result = NoResult
    /\ outputs = <<>>
    /\ raw_content = <<>>
    /\ unicode_chars = <<>>
    /\ acc = <<>>
    /\ idx_in_src = 0
    /\ instr_tracing = NoCollector
    /\ trace_hist = NoTrace
    /\ pc = "init"

SpecHello == InitHello /\ [][Next]_vars

(***************************************************************************)
(* Specification of a machine that is used again: after an evaluation has  *)
(* returned, the caller evaluates the first source once more, or another   *)
(* source, in either mode, on the same machine and with the same input     *)
(* stream.  The first evaluation is the direct or the compiled one.        *)
(***************************************************************************)
ReuseAlphabet == {"+", "<", ".", ","}

ReuseSources == SeqsUpTo(ReuseAlphabet, MaxReuseLen) \cup ExamplePrograms

\* a source that leaves a non-zero cell, a moved data pointer and output
OtherSources == { <<",", ".", "<">> }

EvalAgain ==
    /\ pc \in {"compiled_ready", "done"}
    /\ ~panicked
    /\ outputs # <<>>
    /\ Len(outputs) < MaxEvals
    /\ tokens' \in {outputs[1].tokens} \cup OtherSources
    /\ pc' \in {"init", "direct_done"}
    /\ byte_codes' = <<>>
    /\ compile_result' = NoResult
    /\ UNCHANGED << input, in_pos, out_buf, cells, data_ptr, instr_ptr, panicked,
                    start_to_end, end_to_start, direct_result, last_op,
                    plb_result, bclb_result, op_count, add_run, steps, outputs >>
    /\ UNCHANGED LexVars
    /\ UNCHANGED TracingVars

InitReuse ==
    /\ tokens \in ReuseSources
    /\ input \in Inputs
    /\ \E cell_size \in TapeLens : with_io(cell_size)
    /\ start_to_end = EmptyMap
    /\ end_to_start = EmptyMap
    /\ byte_codes = <<>>
    /\ direct_result = NoDirectResult
    /\ last_op = NoOp
    /\ plb_result = NoResult
    /\ bclb_result = NoResult
    /\ op_count = 0
    /\ add_run = 0
    /\ steps = 0
    /\ compile_result = NoResult
    /\ outputs = <<>>
    /\ raw_content = <<>>
    /\ unicode_chars = <<>>
    /\ acc = <<>>
    /\ idx_in_src = 0
    /\ instr_tracing = NoCollector
    /\ trace_hist = NoTrace
    /\ pc \in {"init", "direct_done"}

NextReuse ==
    \/ Next
    \/ EvalAgain

SpecReuse == InitReuse /\ [][NextReuse]_vars

(***************************************************************************)
(* Specification of the instruction methods on their own: from a freshly   *)
(* constructed machine, any of the eight methods is called with any        *)
(* operand, as eval_byte_codes does for the byte code under instr_ptr.     *)
(* A second branch calls inc_data(1) over and over.                        *)
(***************************************************************************)
OpTapeLens == {1, 10}

OpArgs == {1, 2, 6, 256, 300}

OpWriteArgs == {1, 3}

OpTargets == {0, 2}

OpFrame == << tokens, input, start_to_end, end_to_start, byte_codes,
              direct_result, plb_result, bclb_result, add_run, steps, pc,
              compile_result, outputs, raw_content, unicode_chars, acc, idx_in_src,
               instr_tracing, trace_hist >>

OpCall ==
    /\ pc = "ops"
    /\ ~panicked
    /\ add_run = 0
    /\ op_count < MaxOpSteps
    /\ op_count' = op_count + 1
    /\ UNCHANGED OpFrame

OpWrite == OpCall /\ \E n \in OpWriteArgs : write(n) /\ last_op' = Op("Write", n)

OpRead == OpCall /\ \E n \in OpArgs : read(n) /\ last_op' = Op("Read", n)

OpIncPtr == OpCall /\ \E n \in OpArgs : inc_ptr(n) /\ last_op' = Op("IncPtr", n)

OpDecPtr == OpCall /\ \E n \in OpArgs : dec_ptr(n) /\ last_op' = Op("DecPtr", n)

OpIncData == OpCall /\ \E n \in OpArgs : inc_data(n) /\ last_op' = Op("IncData", n)

OpDecData == OpCall /\ \E n \in OpArgs : dec_data(n) /\ last_op' = Op("DecData", n)

OpLoopStart ==
    /\ OpCall
    /\ \E t \in OpTargets :
          /\ loop_start_jump_if_data_zero(t)
          /\ last_op' = Op("LoopStartJumpIfDataZero", t)

OpLoopEnd ==
    /\ OpCall
    /\ \E t \in OpTargets :
          /\ loop_end_jump_if_data_not_zero(t)
          /\ last_op' = Op("LoopEndJumpIfDataNotZero", t)

OpAddOne ==
    /\ pc = "ops"
    /\ ~panicked
    /\ op_count = 0
    /\ add_run < MaxAddRun
    /\ add_run' = add_run + 1
    /\ inc_data(1)
    /\ last_op' = Op("IncData", 1)
    /\ UNCHANGED << tokens, input, start_to_end, end_to_start, byte_codes,
                    direct_result, plb_result, bclb_result, op_count, steps,
                    pc, compile_result, outputs >>
    /\ UNCHANGED LexVars
    /\ UNCHANGED TracingVars

InitOps ==
    /\ tokens = <<>>
    /\ input \in Inputs
    /\ \E cell_size \in OpTapeLens : with_io(cell_size)
    /\ start_to_end = EmptyMap
    /\ end_to_start = EmptyMap
    /\ byte_codes = <<>>
    /\ direct_result = NoDirectResult
    /\ last_op = NoOp
    /\ plb_result = NoResult
    /\ bclb_result = NoResult
    /\ op_count = 0
    /\ add_run = 0
    /\ steps = 0
    /\ compile_result = NoResult
    /\ outputs = <<>>
    /\ raw_content = <<>>
    /\ unicode_chars = <<>>
    /\ acc = <<>>
    /\ idx_in_src = 0
    /\ instr_tracing = NoCollector
    /\ trace_hist = NoTrace
    /\ pc = "ops"

NextOps ==
    \/ OpWrite
    \/ OpRead
    \/ OpIncPtr
    \/ OpDecPtr
    \/ OpIncData
    \/ OpDecData
    \/ OpLoopStart
    \/ OpLoopEnd
    \/ OpAddOne

SpecOps == InitOps /\ [][NextOps]_vars

(***************************************************************************)
(* Specification of the loop matchers as functions of their input: both    *)
(* are applied to the tokens of one source.                                *)
(***************************************************************************)
MatchFrame == << tokens, input, in_pos, out_buf, cells, data_ptr, instr_ptr,
                 panicked, start_to_end, end_to_start, byte_codes,
                 direct_result, last_op, op_count, add_run, steps, pc,
                 compile_result, outputs, raw_content, unicode_chars, acc, idx_in_src,
                  instr_tracing, trace_hist >>

PopulateLoopBoundaries ==
    /\ pc = "match"
    /\ plb_result = NoResult
    /\ plb_result' = populate_loop_boundaries(StrLoopCodes(tokens))
    /\ UNCHANGED bclb_result
    /\ UNCHANGED MatchFrame

PopulateByteCodesLoopBoundaries ==
    /\ pc = "match"
    /\ bclb_result = NoResult
    /\ bclb_result' =
          populate_byte_codes_loop_boundaries(StrLoopCodes(tokens))
    /\ UNCHANGED plb_result
    /\ UNCHANGED MatchFrame

InitMatch ==
    /\ tokens \in MatchSources
    /\ input = <<>>
    /\ with_io(0)
    /\ start_to_end = EmptyMap
    /\ end_to_start = EmptyMap
    /\ byte_codes = <<>>
    /\ direct_result = NoDirectResult
    /\ last_op = NoOp
    /\ plb_result = NoResult
    /\ bclb_result = NoResult
    /\ op_count = 0
    /\ add_run = 0
    /\ steps = 0
    /\ compile_result = NoResult
    /\ outputs = <<>>
    /\ raw_content = <<>>
    /\ unicode_chars = <<>>
    /\ acc = <<>>
    /\ idx_in_src = 0
    /\ instr_tracing = NoCollector
    /\ trace_hist = NoTrace
    /\ pc = "match"

NextMatch ==
    \/ PopulateLoopBoundaries
    \/ PopulateByteCodesLoopBoundaries

SpecMatch == InitMatch /\ [][NextMatch]_vars


(***************************************************************************)
(* Specification of the compiler alone: to_byte_codes is applied to a      *)
(* lexed source that holds runs, brackets, comment characters, both kinds  *)
(* of newline and clusters of more than one byte.                          *)
(***************************************************************************)
CompileAlphabet == {"+", "-", "[", "]", "c", "\n", "\r\n", MultiByte}

\* the source of the unit test src_file_to_byte_codes
ByteCodesTestSource ==
    << "[", "+", "-", ",", "c", "c", "c", "c", "c", "c", "c", ".", "]", "\n",
       "<", ">" >>

CompileExamples ==
    { ByteCodesTestSource,
      << "[", "[", "+", "]", "]", "c" >>,
      << "+", "+", "c", "+", "\n", "+", "+", "-" >>,
      << MultiByte, "+", "+", "\r\n", "c", "-", "-", "-", "[", "]", "c" >> }

CompileSources == SeqsUpTo(CompileAlphabet, MaxCompileLen) \cup CompileExamples

InitCompile ==
    /\ tokens \in CompileSources
    /\ input = <<>>
    /\ with_io(MaxTapeLen)
    /\ start_to_end = EmptyMap
    /\ end_to_start = EmptyMap
    /\ byte_codes = <<>>
    /\ direct_result = NoDirectResult
    /\ last_op = NoOp
    /\ plb_result = NoResult
    /\ bclb_result = NoResult
    /\ op_count = 0
    /\ add_run = 0
    /\ steps = 0
    /\ compile_result = NoResult
    /\ outputs = <<>>
    /\ raw_content = <<>>
    /\ unicode_chars = <<>>
    /\ acc = <<>>
    /\ idx_in_src = 0
    /\ instr_tracing = NoCollector
    /\ trace_hist = NoTrace
    /\ pc = "direct_done"

NextCompile == ToByteCodes

SpecCompile == InitCompile /\ [][NextCompile]_vars

(***************************************************************************)
(* Specification of the lexer: a text is lexed, then the token texts are   *)
(* pushed one after the other onto an empty string, as the unit test       *)
(* unicode does.                                                           *)
(***************************************************************************)
RawTexts ==
    {Utf8String(chs) : chs \in SeqsUpTo(LexChars, MaxRawLen) \cup {UnicodeTestText}}

LexFrame == << tokens, input, in_pos, out_buf, cells, data_ptr, instr_ptr,
               panicked, start_to_end, end_to_start, byte_codes, direct_result,
               last_op, plb_result, bclb_result, op_count, add_run, steps,
               compile_result, outputs, raw_content,
                instr_tracing, trace_hist >>

\* SourceFile::lex(content)
Lex ==
    /\ pc = "lex"
    /\ unicode_chars' = lex(raw_content)
    /\ idx_in_src' = 0
    /\ acc' = <<>>
    /\ pc' = "fold"
    /\ UNCHANGED LexFrame

\* one step of src_file.iter().fold: acc.push_str(&content[idx..idx + length])
PushStr ==
    /\ pc = "fold"
    /\ idx_in_src # Len(unicode_chars)
    /\ acc' = acc \o get_token(raw_content, unicode_chars[idx_in_src + 1])
    /\ idx_in_src' = idx_in_src + 1
    /\ UNCHANGED << unicode_chars, pc >>
    /\ UNCHANGED LexFrame

\* the iterator returns None
FoldEnd ==
    /\ pc = "fold"
    /\ idx_in_src = Len(unicode_chars)
    /\ pc' = "lexed"
    /\ UNCHANGED << unicode_chars, acc, idx_in_src >>
    /\ UNCHANGED LexFrame

InitLex ==
    /\ raw_content \in RawTexts
    /\ tokens = <<>>
    /\ input = <<>>
    /\ with_io(0)
    /\ start_to_end = EmptyMap
    /\ end_to_start = EmptyMap
    /\ byte_codes = <<>>
    /\ direct_result = NoDirectResult
    /\ last_op = NoOp
    /\ plb_result = NoResult
    /\ bclb_result = NoResult
    /\ op_count = 0
    /\ add_run = 0
    /\ steps = 0
    /\ compile_result = NoResult
    /\ outputs = <<>>
    /\ unicode_chars = <<>>
    /\ acc = <<>>
    /\ idx_in_src = 0
    /\ instr_tracing = NoCollector
    /\ trace_hist = NoTrace
    /\ pc = "lex"

NextLex ==
    \/ Lex
    \/ PushStr
    \/ FoldEnd

SpecLex == InitLex /\ [][NextLex]_vars

(***************************************************************************)
(* Vocabulary of the properties: bracket balance stated by counting, not   *)
(* by the stack the matchers use.                                          *)
(***************************************************************************)
\* starts minus ends among the first n tokens
Depth(toks, n) ==
    Cardinality({i \in 1..n : toks[i] = "["}) - Cardinality({i \in 1..n : toks[i] = "]"})

PairedBrackets(toks) ==
    /\ \A n \in 0..Len(toks) : Depth(toks, n) >= 0
    /\ Depth(toks, Len(toks)) = 0

HasUnmatchedEnd(toks) == \E n \in 1..Len(toks) : Depth(toks, n) < 0

\* 0-based index of the leftmost end that has no pending start
FirstUnmatchedEnd(toks) ==
    (CHOOSE n \in 1..Len(toks) :
        Depth(toks, n) < 0 /\ \A k \in 1..(n - 1) : Depth(toks, k) >= 0) - 1

\* 0-based indices of the starts that no later end closes
UnmatchedStarts(toks) ==
    {i \in 0..(Len(toks) - 1) :
        /\ toks[i + 1] = "["
        /\ \A n \in (i + 1)..Len(toks) : Depth(toks, n) > Depth(toks, i)}

SetMax(S) == CHOOSE x \in S : \A y \in S : y <= x

StartPositions(toks) == {i \in 0..(Len(toks) - 1) : toks[i + 1] = "["}

EndPositions(toks) == {i \in 0..(Len(toks) - 1) : toks[i + 1] = "]"}

\* the maximal runs of one instruction symbol, in source order, as the
\* <<kind, length>> pairs the compiler is to emit for them
RECURSIVE RunsFrom(_, _)
RunsFrom(toks, i) ==
    IF i > Len(toks) THEN <<>>
    ELSE IF toks[i] \notin DOMAIN symbols THEN RunsFrom(toks, i + 1)
    ELSE LET k == CHOOSE k \in 1..(Len(toks) - i + 1) :
                     /\ \A j \in i..(i + k - 1) : toks[j] = toks[i]
                     /\ (i + k > Len(toks) \/ toks[i + k] # toks[i])
         IN  << <<symbols[toks[i]], k>> >> \o RunsFrom(toks, i + k)

IsJump(bc) == ByteCodeLoopCode(bc) # "neither"

NonJumpKindArgs(codes) ==
    LET nj == SelectSeq(codes, LAMBDA bc : ~IsJump(bc))
    IN  [i \in 1..Len(nj) |-> <<nj[i].kind, nj[i].arg>>]

Compiled == pc \in {"compiled_ready", "compiled", "done"}

(***************************************************************************)
(* Claims                                                                  *)
(***************************************************************************)

\* C1: for a source whose brackets are all paired, the compiled evaluation
\* ends with the output the direct evaluation of the same source on the same
\* input stream and tape size ended with.
C1_ModesEmitSameOutput ==
    (pc = "done" /\ PairedBrackets(tokens)) => out_buf = direct_result.out_buf

\* C2: move-forward(n) leaves the data pointer at (old + n) mod tape length
\* and move-backward(n) at (old - n) mod tape length.
C2_PointerWrapsAtTapeLength ==
    /\ (pc = "ops" /\ last_op.kind = "IncPtr")
          => data_ptr = (last_op.data_ptr + last_op.arg) % Len(cells)
    /\ (pc = "ops" /\ last_op.kind = "DecPtr")
          => data_ptr = (last_op.data_ptr - last_op.arg) % Len(cells)

\* C3: while a well-bracketed program is evaluated, in either mode, the data
\* pointer is a valid index of the tape and no cell access has failed.
C3_DataPointerStaysOnTape ==
    (pc \in {"direct", "compiled"} /\ PairedBrackets(tokens))
        => (data_ptr < Len(cells) /\ ~panicked)

\* C4: add(n) turns the current cell into (old + n) mod 256 and subtract(n)
\* into (old - n) mod 256, for every operand n, without failing; after k
\* calls of add(1) on a zero cell the cell holds k mod 256, so 0 after 256.
C4_AddSubWrapMod256 ==
    (/\ pc = "ops"
     /\ last_op.kind \in {"IncData", "DecData"}
     /\ last_op.data_ptr < Len(last_op.cells))
        => /\ ~panicked
           /\ data_ptr = last_op.data_ptr
           /\ cells[data_ptr + 1] =
                 IF last_op.kind = "IncData"
                 THEN (last_op.cells[data_ptr + 1] + last_op.arg) % 256
                 ELSE (last_op.cells[data_ptr + 1] - last_op.arg) % 256
           /\ add_run > 0 => cells[data_ptr + 1] = add_run % 256

\* an add whose operand is above 255 has acted on a non-zero cell and wrapped
C4_Witness ==
    /\ pc = "ops"
    /\ last_op.kind = "IncData"
    /\ last_op.arg = 300
    /\ last_op.data_ptr < Len(last_op.cells)
    /\ last_op.cells[last_op.data_ptr + 1] = 250
    /\ cells[data_ptr + 1] = 38

\* C5: the direct evaluation of a source with an unmatched bracket emits no
\* output, consumes no input and changes no cell.
C5_DirectModeFailsFast ==
    (pc \in {"direct", "direct_done"} /\ ~PairedBrackets(tokens))
        => /\ out_buf = <<>>
           /\ in_pos = 0
           /\ \A i \in 1..Len(cells) : cells[i] = 0

\* C6: a loop matcher answers an unbalanced input with a failure that names
\* the side and the index, and answers with a match table only when every
\* loop-start is matched with a loop-end at a greater index and vice versa.
MatcherResultOk(r) ==
    /\ ~PairedBrackets(tokens) => (r.tag = "Err" /\ r.side \in {"Left", "Right"})
    /\ r.tag = "Ok" =>
          /\ DOMAIN r.start_to_end = StartPositions(tokens)
          /\ DOMAIN r.end_to_start = EndPositions(tokens)
          /\ \A st \in DOMAIN r.start_to_end : st < r.start_to_end[st]

C6_NeverDropsUnmatchedBracket ==
    /\ plb_result # NoResult => MatcherResultOk(plb_result)
    /\ bclb_result # NoResult => MatcherResultOk(bclb_result)

\* C7: when some end has no pending start, populate_loop_boundaries fails
\* with unmatched-end at the leftmost such end, whatever follows it (pending
\* starts included): the result is that of the input cut after that end.
C7_FirstUnmatchedEndReported ==
    (plb_result # NoResult /\ HasUnmatchedEnd(tokens))
        => /\ plb_result = [tag |-> "Err", side |-> "Right",
                            index |-> FirstUnmatchedEnd(tokens)]
           /\ plb_result =
                 populate_loop_boundaries(
                     StrLoopCodes(SubSeq(tokens, 1, FirstUnmatchedEnd(tokens) + 1)))

\* an unmatched end is reported although more items follow it, an unmatched
\* start among them
C7_Witness ==
    /\ tokens = <<"[", "]", "]", "[", "]", "[">>
    /\ plb_result = [tag |-> "Err", side |-> "Right", index |-> 2]

\* C8: when no end is unmatched and starts are left pending,
\* populate_loop_boundaries fails with unmatched-start at the latest start
\* that no end closes.
C8_LatestUnmatchedStartReported ==
    (plb_result # NoResult /\ ~HasUnmatchedEnd(tokens)
                           /\ Depth(tokens, Len(tokens)) > 0)
        => plb_result = [tag |-> "Err", side |-> "Left",
                         index |-> SetMax(UnmatchedStarts(tokens))]

\* two starts are left pending and the later one is reported
C8_Witness ==
    /\ tokens = <<"[", "+", "[", "[", "]">>
    /\ UnmatchedStarts(tokens) = {0, 2}
    /\ plb_result = [tag |-> "Err", side |-> "Left", index |-> 2]

\* C9: on a balanced input populate_loop_boundaries returns two maps that
\* are inverses of each other, keyed by the positions of the starts and of
\* the ends in the whole input, every start before its end.
C9_MapsAreInverse ==
    (plb_result # NoResult /\ PairedBrackets(tokens))
        => /\ plb_result.tag = "Ok"
           /\ DOMAIN plb_result.start_to_end = StartPositions(tokens)
           /\ DOMAIN plb_result.end_to_start = EndPositions(tokens)
           /\ \A st \in DOMAIN plb_result.start_to_end :
                 /\ st < plb_result.start_to_end[st]
                 /\ plb_result.start_to_end[st] \in DOMAIN plb_result.end_to_start
                 /\ plb_result.end_to_start[plb_result.start_to_end[st]] = st
           /\ \A en \in DOMAIN plb_result.end_to_start :
                 /\ plb_result.end_to_start[en] \in DOMAIN plb_result.start_to_end
                 /\ plb_result.start_to_end[plb_result.end_to_start[en]] = en

\* the example "+[[]]"
C9_Witness ==
    /\ tokens = <<"+", "[", "[", "]", "]">>
    /\ plb_result = [tag |-> "Ok",
                     start_to_end |-> (1 :> 4) @@ (2 :> 3),
                     end_to_start |-> (3 :> 2) @@ (4 :> 1)]

\* C10: the non-jump instructions to_byte_codes emits are, in order, one per
\* maximal run of identical non-jump symbols, with the run length as operand.
C10_OneInstructionPerRun ==
    Compiled => NonJumpKindArgs(byte_codes) = RunsFrom(tokens, 1)

\* the source is one run of k >= 1 copies of a non-jump symbol, closed by a
\* comment character
IsRunThenComment(toks) ==
    /\ Len(toks) >= 2
    /\ toks[1] \in DOMAIN symbols
    /\ \A i \in 1..(Len(toks) - 1) : toks[i] = toks[1]
    /\ toks[Len(toks)] = "c"

\* C11: a run of k identical non-jump symbols executed one by one by the
\* direct evaluation, and the one instruction with operand k the run compiles
\* to executed by the compiled evaluation, both from the reset machine and on
\* the same input stream, end in the same tape contents and data pointer.
C11_CoalescedRunSameTape ==
    (pc = "done" /\ IsRunThenComment(tokens))
        => /\ Len(byte_codes) = 1
           /\ byte_codes[1].arg = Len(tokens) - 1
           /\ cells = direct_result.cells
           /\ data_ptr = direct_result.data_ptr

\* the read that has just run had a current cell
ReadOnTape ==
    /\ pc = "ops"
    /\ last_op.kind = "Read"
    /\ last_op.data_ptr < Len(last_op.cells)

\* C12 as stated: read(n) consumes exactly one character whatever n is, and
\* the current cell then holds that character's code.
C12_ReadStoresCharCode ==
    ReadOnTape
        => /\ in_pos = last_op.in_pos + 1
           /\ cells[data_ptr + 1] = input[in_pos]

\* C12 as amended: read(n) consumes exactly one character whatever n is, and
\* the current cell then holds that character's code modulo 256.
C12_ReadStoresCharCodeMod256 ==
    ReadOnTape
        => /\ ~panicked
           /\ in_pos = last_op.in_pos + 1
           /\ data_ptr = last_op.data_ptr
           /\ cells[data_ptr + 1] = input[in_pos] % 256

\* a read with operand 300 has taken one character, of code 258, and left 2
\* in the cell
C12_Witness ==
    /\ ReadOnTape
    /\ last_op.arg = 300
    /\ in_pos = last_op.in_pos + 1
    /\ input[in_pos] = 258
    /\ cells[data_ptr + 1] = 2

\* C13: write(n) appends the current cell's value, as a character code, to
\* the output exactly n times, and leaves the tape and the data pointer
\* unchanged.
C13_WriteEmitsCellNTimes ==
    (/\ pc = "ops"
     /\ last_op.kind = "Write"
     /\ last_op.data_ptr < Len(last_op.cells))
        => /\ ~panicked
           /\ Len(out_buf) = Len(last_op.out_buf) + last_op.arg
           /\ SubSeq(out_buf, 1, Len(last_op.out_buf)) = last_op.out_buf
           /\ \A i \in (Len(last_op.out_buf) + 1)..Len(out_buf) :
                 out_buf[i] = last_op.cells[last_op.data_ptr + 1]
           /\ cells = last_op.cells
           /\ data_ptr = last_op.data_ptr

\* a write with operand 3 has emitted a non-zero cell three times
C13_Witness ==
    /\ pc = "ops"
    /\ last_op.kind = "Write"
    /\ last_op.arg = 3
    /\ last_op.data_ptr < Len(last_op.cells)
    /\ last_op.cells[last_op.data_ptr + 1] = 6
    /\ out_buf = last_op.out_buf \o <<6, 6, 6>>
    /\ cells = last_op.cells

\* starts minus ends among the first n loop codes
DepthOf(codes, n) ==
    Cardinality({i \in 1..n : codes[i] = "start"})
        - Cardinality({i \in 1..n : codes[i] = "end"})

\* 0-based index of the end that closes the start at 0-based index i: the
\* nearest later end at which the depth is back to what it was before i
MatchingEnd(codes, i) ==
    CHOOSE j \in (i + 1)..(Len(codes) - 1) :
        /\ codes[j + 1] = "end"
        /\ DepthOf(codes, j + 1) = DepthOf(codes, i)
        /\ \A k \in (i + 1)..(j - 1) :
              ~(codes[k + 1] = "end" /\ DepthOf(codes, k + 1) = DepthOf(codes, i))

\* 0-based index of the start that the end at 0-based index j closes
MatchingStart(codes, j) ==
    CHOOSE i \in 0..(j - 1) :
        /\ codes[i + 1] = "start"
        /\ DepthOf(codes, i) = DepthOf(codes, j + 1)
        /\ \A k \in (i + 1)..(j - 1) :
              ~(codes[k + 1] = "start" /\ DepthOf(codes, k) = DepthOf(codes, j + 1))

\* the jump that has just run on a current cell obeyed the rule, the partner
\* of a bracket being found in codes by counting
JumpRule(codes) ==
    /\ (last_op.kind = "LoopStartJumpIfDataZero"
            /\ last_op.data_ptr < Len(last_op.cells))
          => /\ ~panicked
             /\ instr_ptr =
                   IF last_op.cells[last_op.data_ptr + 1] = 0
                   THEN MatchingEnd(codes, last_op.instr_ptr) + 1
                   ELSE last_op.instr_ptr + 1
    /\ (last_op.kind = "LoopEndJumpIfDataNotZero"
            /\ last_op.data_ptr < Len(last_op.cells))
          => /\ ~panicked
             /\ instr_ptr =
                   IF last_op.cells[last_op.data_ptr + 1] # 0
                   THEN MatchingStart(codes, last_op.instr_ptr)
                   ELSE last_op.instr_ptr + 1

UninitJumpArg == UsizeModulus - 1

\* to_byte_codes has returned or panicked
CompileReturned == compile_result # NoResult

\* C15: after to_byte_codes on a well-bracketed source every jump is
\* resolved: a loop-start at instruction index i has as operand the
\* instruction index j of its matching loop-end and that loop-end has operand
\* i; no operand is the unresolved sentinel; the indices are positions in the
\* instruction sequence.
C15_JumpOperandsResolved ==
    (CompileReturned /\ PairedBrackets(tokens))
        => /\ compile_result.tag = "Ok"
           /\ \A i \in 0..(Len(byte_codes) - 1) :
                 LET bc == byte_codes[i + 1]
                     codes == ByteCodeLoopCodes(byte_codes)
                 IN  /\ IsJump(bc) => (bc.arg # UninitJumpArg
                                         /\ bc.arg \in 0..(Len(byte_codes) - 1))
                     /\ ByteCodeLoopCode(bc) = "start"
                           => /\ bc.arg = MatchingEnd(codes, i)
                              /\ ByteCodeLoopCode(byte_codes[bc.arg + 1]) = "end"
                              /\ byte_codes[bc.arg + 1].arg = i
                     /\ ByteCodeLoopCode(bc) = "end"
                           => /\ bc.arg = MatchingStart(codes, i)
                              /\ ByteCodeLoopCode(byte_codes[bc.arg + 1]) = "start"
                              /\ byte_codes[bc.arg + 1].arg = i

\* the loop of "+++[-\n><]..": its brackets are tokens 3 and 8 and
\* instructions 1 and 5, and the operands are the instruction indices
C15_Witness ==
    /\ CompileReturned
    /\ tokens = <<"+", "+", "+", "[", "-", "\n", ">", "<", "]", ".", ".">>
    /\ byte_codes[2].kind = "LoopStartJumpIfDataZero"
    /\ byte_codes[2].arg = 5
    /\ byte_codes[6].kind = "LoopEndJumpIfDataNotZero"
    /\ byte_codes[6].arg = 1

\* C16: compiling a source with an unmatched bracket ends in the loop
\* matcher's failure, which names a side and an index; no instruction
\* sequence is returned and the compiled evaluation executes nothing.
C16_UnmatchedBracketFailsCompile ==
    (CompileReturned /\ ~PairedBrackets(tokens))
        => /\ compile_result.tag = "Err"
           /\ compile_result.side \in {"Left", "Right"}
           /\ compile_result.index \in 0..(Len(tokens) - 1)
           /\ byte_codes = <<>>
           /\ pc \notin {"compiled", "done"}

\* the ready state of a machine whose tape has n cells
Ready(n) ==
    /\ Len(cells) = n
    /\ \A i \in 1..n : cells[i] = 0
    /\ 2 * data_ptr \in {n - 1, n}
    /\ instr_ptr = 0
    /\ out_buf = <<>>

\* eval_source_file or eval_byte_codes has been entered and has not stepped
EvalEntered == pc \in {"direct", "compiled"} /\ steps = 0

\* C17: when eval_source_file or eval_byte_codes is about to execute its
\* first step the machine is in the ready state whatever state it was in
\* before: every cell 0, data pointer at tape length divided by two, rounded
\* down, instruction pointer 0, the IO port flushed.
C17_ResetBeforeFirstStep ==
    EvalEntered => Ready(Len(cells))

\* eval_byte_codes has been entered on a machine the direct evaluation left
\* with a non-zero cell, a moved data pointer and output in the port
C17_Witness ==
    /\ pc = "compiled"
    /\ steps = 0
    /\ \E i \in 1..Len(direct_result.cells) : direct_result.cells[i] # 0
    /\ direct_result.data_ptr # data_ptr
    /\ direct_result.out_buf # <<>>
    /\ Ready(2)

\* C18: an evaluation of a source on a machine that has evaluated before
\* (any source, either mode, every earlier evaluation having returned
\* normally) ends with the output of the first evaluation, which ran the same
\* source in the same mode on the freshly constructed machine.
C18_OutputIndependentOfPriorRuns ==
    \A i \in 2..Len(outputs) :
        (/\ outputs[i].mode = outputs[1].mode
         /\ outputs[i].tokens = outputs[1].tokens
         /\ \A j \in 1..(i - 1) : ~outputs[j].panicked)
            => /\ outputs[i].out_buf = outputs[1].out_buf
               /\ ~outputs[i].panicked

\* a third evaluation, compiled like the first and of the same source, has
\* repeated the first one's output after another source ran in between
C18_Witness ==
    /\ Len(outputs) = 3
    /\ outputs[1].mode = "compiled"
    /\ outputs[2].tokens \in OtherSources
    /\ outputs[2].out_buf # <<>>
    /\ outputs[3].mode = "compiled"
    /\ outputs[3].tokens = outputs[1].tokens
    /\ outputs[3].tokens \notin OtherSources
    /\ outputs[1].out_buf # <<>>
    /\ outputs[3].out_buf = outputs[1].out_buf

\* C19: for every text, the token texts lex produces, concatenated in order,
\* are the text.
C19_TokensConcatenateToSource ==
    pc = "lexed" => acc = raw_content

\* a text with a carriage return and line feed, a combining mark and a
\* three-byte character has been rebuilt from fewer tokens than characters
C19_Witness ==
    /\ pc = "lexed"
    /\ raw_content = Utf8String(<<13, 10, 784, 8364>>)
    /\ unicode_chars = << [idx_in_raw |-> 0, length |-> 2],
                          [idx_in_raw |-> 2, length |-> 2],
                          [idx_in_raw |-> 4, length |-> 3] >>
    /\ acc = raw_content

\* lex has returned
Lexed == pc \in {"fold", "lexed"}

\* C20: the tokens cover the text with no gaps and no overlaps: the first
\* starts at byte offset 0, each next one at the previous one's offset plus
\* its length, the last ends at the length of the text, every token has at
\* least one byte, and the empty text gives the empty sequence.
C20_TokensCoverSource ==
    Lexed =>
        /\ (raw_content = <<>>) <=> (unicode_chars = <<>>)
        /\ unicode_chars # <<>> =>
              /\ unicode_chars[1].idx_in_raw = 0
              /\ LET last == unicode_chars[Len(unicode_chars)]
                 IN  last.idx_in_raw + last.length = Len(raw_content)
        /\ \A k \in 1..Len(unicode_chars) : unicode_chars[k].length >= 1
        /\ \A k \in 1..(Len(unicode_chars) - 1) :
              unicode_chars[k + 1].idx_in_raw =
                  unicode_chars[k].idx_in_raw + unicode_chars[k].length

\* the text of the unit test: 14 characters in 18 bytes, lexed into 10 tokens
C20_Witness ==
    /\ Lexed
    /\ raw_content = Utf8String(UnicodeTestText)
    /\ Len(raw_content) = 18
    /\ Len(unicode_chars) = 10
    /\ unicode_chars[2] = [idx_in_raw |-> 1, length |-> 3]
    /\ unicode_chars[4] = [idx_in_raw |-> 7, length |-> 5]

\* the eight instruction symbols
InstructionSymbols == DOMAIN symbols \cup {"[", "]"}

\* the source holds none of the eight instruction symbols
NoInstructionSymbol(toks) ==
    \A i \in 1..Len(toks) : toks[i] \notin InstructionSymbols

AllCellsZero == \A i \in 1..Len(cells) : cells[i] = 0

\* C21: a source with none of the eight instruction symbols compiles,
\* without error, to the empty instruction sequence; its direct evaluation
\* ends after one step per token and its compiled evaluation without a step,
\* both with empty output, no input consumed and an all-zero tape.
C21_NoSymbolsCompileToNothing ==
    NoInstructionSymbol(tokens)
        => /\ CompileReturned => (compile_result.tag = "Ok" /\ byte_codes = <<>>)
           /\ ~panicked
           /\ out_buf = <<>>
           /\ in_pos = 0
           /\ AllCellsZero
           /\ pc = "direct" => steps = instr_ptr
           /\ pc = "direct_done" => (steps = Len(tokens) /\ instr_ptr = Len(tokens))
           /\ pc = "compiled" => steps = 0
           /\ pc = "done" => (steps = 0 /\ instr_ptr = 0)

\* both evaluations of a source of comment characters and a newline have
\* ended
C21_Witness ==
    /\ tokens = <<"c", "\n", "c">>
    /\ pc = "done"
    /\ byte_codes = <<>>
    /\ Len(outputs) = 2
    /\ outputs[1].out_buf = <<>>
    /\ outputs[2].out_buf = <<>>
    /\ AllCellsZero

\* C22: the 106-character Hello World program, evaluated in direct mode and
\* in compiled mode, ends, has emitted exactly "Hello World!\n" and has
\* consumed no input.
C22_HelloWorld ==
    tokens = HelloWorld
        => /\ Len(tokens) = 106
           /\ ~panicked
           /\ in_pos = 0
           /\ steps < MaxHelloSteps
           /\ pc = "direct_done"
                 => (out_buf = HelloOutput /\ instr_ptr = Len(tokens))
           /\ pc = "done"
                 => (out_buf = HelloOutput /\ instr_ptr = Len(byte_codes))

\* both evaluations of the Hello World program have ended with its output
C22_Witness ==
    /\ tokens = HelloWorld
    /\ pc = "done"
    /\ Len(outputs) = 2
    /\ outputs[1] = [mode |-> "direct", tokens |-> HelloWorld,
                     out_buf |-> HelloOutput, panicked |-> FALSE]
    /\ outputs[2] = [mode |-> "compiled", tokens |-> HelloWorld,
                     out_buf |-> HelloOutput, panicked |-> FALSE]
    /\ in_pos = 0

\* C23: the number of cells is fixed at construction: no step of the machine
\* (an instruction step, reset at either entry point, the end of an
\* evaluation, compilation, a further evaluation) changes it.
C23_TapeLengthFixed == [][Len(cells') = Len(cells)]_vars

\* a machine of two cells is in its third evaluation, after instruction steps
\* and two resets that found written cells
C23_Witness ==
    /\ Len(outputs) = 2
    /\ pc \in {"direct", "compiled"}
    /\ steps > 0
    /\ Len(cells) = 2
    /\ \E i \in 1..Len(cells) : cells[i] # 0

\* an evaluation is under way or has ended
Evaluating == pc \in {"direct", "direct_done", "compiled", "done"}

\* length of the program the current evaluation runs: Tokens in direct mode,
\* instructions in compiled mode
ProgramLength ==
    IF pc \in {"direct", "direct_done"} THEN Len(tokens) ELSE Len(byte_codes)

\* C24: while a well-bracketed program is evaluated the instruction pointer
\* is at most the program length; a step is taken only from an instruction
\* pointer below the program length, below it the next step has what it
\* needs (a bracket has its partner in the match table), and an evaluation
\* that has ended has ended with the instruction pointer equal to the
\* program length.
C24_InstrPtrWithinProgram ==
    (PairedBrackets(tokens) /\ Evaluating)
        => /\ instr_ptr <= ProgramLength
           /\ last_op # NoOp => last_op.instr_ptr < ProgramLength
           /\ pc \in {"direct_done", "done"} => instr_ptr = ProgramLength
           /\ (pc = "direct" /\ instr_ptr < Len(tokens))
                 => /\ tokens[instr_ptr + 1] = "["
                          => instr_ptr \in DOMAIN start_to_end
                    /\ tokens[instr_ptr + 1] = "]"
                          => instr_ptr \in DOMAIN end_to_start
           /\ (pc = "compiled" /\ instr_ptr < Len(byte_codes)
                 /\ IsJump(byte_codes[instr_ptr + 1]))
                 => byte_codes[instr_ptr + 1].arg < Len(byte_codes)

\* kinds of the six operations that are not jumps
NonJumpKinds == {"Write", "Read", "IncPtr", "DecPtr", "IncData", "DecData"}

\* the last call found the cell it works on (the pointer moves need none)
HadCurrentCell ==
    \/ last_op.kind \in {"IncPtr", "DecPtr"}
    \/ last_op.data_ptr < Len(last_op.cells)

\* the last call was a jump whose condition held
JumpTaken ==
    /\ last_op.data_ptr < Len(last_op.cells)
    /\ \/ /\ last_op.kind = "LoopStartJumpIfDataZero"
          /\ last_op.cells[last_op.data_ptr + 1] = 0
       \/ /\ last_op.kind = "LoopEndJumpIfDataNotZero"
          /\ last_op.cells[last_op.data_ptr + 1] # 0

\* C25: a move, add, subtract, read or write advances the instruction
\* pointer by exactly 1 whatever its operand is, and after a call the
\* instruction pointer differs from the old one plus 1 only if the call was
\* a jump whose condition held.
C25_NonJumpAdvancesByOne ==
    (pc = "ops" /\ last_op # NoOp /\ HadCurrentCell)
        => /\ last_op.kind \in NonJumpKinds
                 => instr_ptr = last_op.instr_ptr + 1
           /\ instr_ptr # last_op.instr_ptr + 1 => JumpTaken

\* a move by 300 after another call has advanced the instruction pointer
\* from 1 to 2
C25_Witness ==
    /\ pc = "ops"
    /\ last_op.kind = "IncPtr"
    /\ last_op.arg = 300
    /\ last_op.instr_ptr = 1
    /\ instr_ptr = 2
    /\ data_ptr = last_op.data_ptr + 300

\* C26: in direct mode a step on a Token that is none of the eight
\* instruction symbols advances the instruction pointer by 1 and leaves the
\* tape, the data pointer, the output and the input position as they were.
C26_OtherTokenOnlyAdvances ==
    (pc \in {"direct", "direct_done"} /\ last_op.kind = "Other")
        => /\ instr_ptr = last_op.instr_ptr + 1
           /\ tokens[instr_ptr] \notin InstructionSymbols
           /\ cells = last_op.cells
           /\ data_ptr = last_op.data_ptr
           /\ out_buf = last_op.out_buf
           /\ in_pos = last_op.in_pos
           /\ ~panicked

\* a newline was stepped over after a read and a write had changed the
\* tape, the input position and the output
C26_Witness ==
    /\ tokens = <<",", ".", "\n">>
    /\ pc = "direct"
    /\ last_op.kind = "Other"
    /\ instr_ptr = 3
    /\ in_pos = 1
    /\ out_buf # <<>>
    /\ \E i \in 1..Len(cells) : cells[i] # 0

\* C27: add, subtract and read leave the data pointer and every cell but
\* the one at the data pointer unchanged; the moves, write and both jumps
\* change no cell; only read moves the input position and only write
\* extends the output.
C27_DataOperationFrame ==
    (pc = "ops" /\ last_op # NoOp)
        => /\ last_op.kind \in {"IncData", "DecData", "Read"}
                 => /\ data_ptr = last_op.data_ptr
                    /\ Len(cells) = Len(last_op.cells)
                    /\ \A i \in 1..Len(cells) :
                          i # last_op.data_ptr + 1 => cells[i] = last_op.cells[i]
           /\ last_op.kind \notin {"IncData", "DecData", "Read"}
                 => cells = last_op.cells
           /\ last_op.kind # "Read" => in_pos = last_op.in_pos
           /\ last_op.kind # "Write" => out_buf = last_op.out_buf

\* a read on the tape of ten cells has replaced the 6 in the middle cell by
\* the character read and has left the other nine cells alone
C27_Witness ==
    /\ pc = "ops"
    /\ last_op.kind = "Read"
    /\ Len(cells) = 10
    /\ last_op.data_ptr = 5
    /\ last_op.cells[6] = 6
    /\ cells[6] = 1
    /\ in_pos = last_op.in_pos + 1
    /\ \A i \in 1..10 : i # 6 => cells[i] = 0

\* the loop codes that are brackets, in their order
RECURSIVE JumpCodes(_)
JumpCodes(codes) ==
    IF codes = <<>> THEN <<>>
    ELSE IF Head(codes) = "neither" THEN JumpCodes(Tail(codes))
    ELSE <<Head(codes)>> \o JumpCodes(Tail(codes))

\* C28: brackets are never coalesced: the jump instructions of the compiled
\* sequence are, in number and order, the bracket Tokens of the source, one
\* loop start for every '[' and one loop end for every ']', also where
\* identical brackets are adjacent.
C28_BracketsNeverCoalesced ==
    (pc = "compiled_ready" /\ compile_result.tag = "Ok")
        => JumpCodes(ByteCodeLoopCodes(byte_codes)) = JumpCodes(StrLoopCodes(tokens))

\* "[[+]]c" is compiled into five instructions, four of them jumps
C28_Witness ==
    /\ tokens = << "[", "[", "+", "]", "]", "c" >>
    /\ pc = "compiled_ready"
    /\ Len(byte_codes) = 5
    /\ JumpCodes(ByteCodeLoopCodes(byte_codes)) = <<"start", "start", "end", "end">>

\* number of Tokens an instruction stands for
Covered(bc) == IF IsJump(bc) THEN 1 ELSE bc.arg

\* 0-based index of the first instruction symbol at or after index i, or
\* Len(toks) if there is none
NextSymbol(toks, i) ==
    LET S == {j \in i..(Len(toks) - 1) : toks[j + 1] \in InstructionSymbols}
    IN  IF S = {} THEN Len(toks) ELSE CHOOSE j \in S : \A k \in S : j <= k

\* 0-based index of the first Token of the k-th instruction: the first
\* instruction symbol after the Tokens the instructions before it stand for
RECURSIVE FirstToken(_, _, _)
FirstToken(toks, codes, k) ==
    IF k = 1 THEN NextSymbol(toks, 0)
    ELSE LET p == FirstToken(toks, codes, k - 1) + Covered(codes[k - 1])
         IN  IF p > Len(toks) THEN Len(toks) ELSE NextSymbol(toks, p)

RECURSIVE SumArgs(_, _)
SumArgs(codes, kind) ==
    IF codes = <<>> THEN 0
    ELSE (IF Head(codes).kind = kind THEN Head(codes).arg ELSE 0)
         + SumArgs(Tail(codes), kind)

CountTokens(toks, s) == Cardinality({i \in 1..Len(toks) : toks[i] = s})

\* C29: every non-jump instruction stands for consecutive Tokens of its own
\* symbol only, starting at its first Token, and where a different Token
\* follows (a comment character and a newline too) the run ends there; for
\* every kind the operands add up to the number of Tokens of its symbol.
C29_CoalescingConsecutiveOnly ==
    (pc = "compiled_ready" /\ compile_result.tag = "Ok")
        => /\ \A k \in 1..Len(byte_codes) :
                 LET bc == byte_codes[k]
                     first == FirstToken(tokens, byte_codes, k)
                 IN  ~IsJump(bc)
                       => /\ bc.arg >= 1
                          /\ first + bc.arg <= Len(tokens)
                          /\ \A j \in 1..bc.arg :
                                /\ tokens[first + j] \in DOMAIN symbols
                                /\ symbols[tokens[first + j]] = bc.kind
                          /\ \A d \in 1..(Len(tokens) - first) :
                                (/\ tokens[first + d] # tokens[first + 1]
                                 /\ \A e \in 1..(d - 1) :
                                       tokens[first + e] = tokens[first + 1])
                                    => bc.arg = d - 1
           /\ \A s \in DOMAIN symbols :
                 SumArgs(byte_codes, symbols[s]) = CountTokens(tokens, s)

\* "++c+" and, on the next line, "++-" are compiled into a run of 2, a single
\* add after the comment, a run of 2 and the subtraction
C29_Witness ==
    /\ tokens = << "+", "+", "c", "+", "\n", "+", "+", "-" >>
    /\ pc = "compiled_ready"
    /\ Len(byte_codes) = 4
    /\ byte_codes[1].arg = 2
    /\ byte_codes[2].arg = 1
    /\ byte_codes[3].arg = 2
    /\ byte_codes[4].kind = "DecData"
    /\ SumArgs(byte_codes, "IncData") = 5

NewlineTokens == {"\n", "\r\n"}

\* bytes of the first i Tokens
RECURSIVE BytesBefore(_, _)
BytesBefore(toks, i) ==
    IF i = 0 THEN 0 ELSE BytesBefore(toks, i - 1) + ByteLen(toks[i])

\* the position of the Token with 0-based index i: newline Tokens before
\* it, Tokens since the last newline, bytes before it
PositionOf(toks, i) ==
    LET newlines == {j \in 1..i : toks[j] \in NewlineTokens}
    IN  [row |-> Cardinality(newlines),
         column |-> i - SetMax(newlines \cup {0}),
         offset |-> BytesBefore(toks, i)]

\* C30: every instruction to_byte_codes emits records as start the position
\* of the first Token it stands for: the byte offset of that Token in the
\* raw text (bytes of comments and newlines before it counted), as row the
\* number of newline Tokens before it, as column the number of Tokens since
\* the last newline.
C30_StartPositionOfFirstToken ==
    (pc = "compiled_ready" /\ compile_result.tag = "Ok")
        => \A k \in 1..Len(byte_codes) :
              LET first == FirstToken(tokens, byte_codes, k)
              IN  /\ first < Len(tokens)
                  /\ byte_codes[k].range[1] = PositionOf(tokens, first)

\* a two-byte cluster, a run of two, a CRLF and a comment character lie
\* before the run of three that starts at row 1, column 1, byte offset 7
C30_Witness ==
    /\ tokens = << MultiByte, "+", "+", "\r\n", "c", "-", "-", "-", "[", "]", "c" >>
    /\ pc = "compiled_ready"
    /\ Len(byte_codes) = 4
    /\ byte_codes[1].range[1] = [row |-> 0, column |-> 1, offset |-> 2]
    /\ byte_codes[2].kind = "DecData"
    /\ byte_codes[2].arg = 3
    /\ byte_codes[2].range[1] = [row |-> 1, column |-> 1, offset |-> 7]
    /\ byte_codes[3].range[1] = [row |-> 1, column |-> 4, offset |-> 10]

\* the pairs of a returned match table are properly nested, and every end
\* is paired with the nearest start before it that no earlier end closed
ProperlyNested(r) ==
    /\ \A s1, s2 \in DOMAIN r.start_to_end :
          s1 < s2 => \/ r.start_to_end[s1] < s2
                     \/ r.start_to_end[s2] < r.start_to_end[s1]
    /\ \A e \in DOMAIN r.end_to_start :
          LET s == r.end_to_start[e]
          IN  /\ s < e
              /\ tokens[s + 1] = "["
              /\ s \in DOMAIN r.start_to_end
              /\ r.start_to_end[s] = e
              /\ \A k \in (s + 1)..(e - 1) :
                    tokens[k + 1] = "["
                        => (k \in DOMAIN r.start_to_end /\ r.start_to_end[k] < e)

\* C31: the pairs either loop matcher returns are properly nested (two
\* pairs are disjoint or one lies inside the other, they never cross), and
\* each end is paired with the nearest preceding start that is still
\* unmatched.
C31_PairsProperlyNested ==
    /\ (plb_result # NoResult /\ plb_result.tag = "Ok") => ProperlyNested(plb_result)
    /\ (bclb_result # NoResult /\ bclb_result.tag = "Ok")
          => ProperlyNested(bclb_result)

\* both matchers have paired "[[]][]": a pair inside a pair and a pair
\* after them
C31_Witness ==
    /\ tokens = <<"[", "[", "]", "]", "[", "]">>
    /\ plb_result.tag = "Ok"
    /\ plb_result.start_to_end = (0 :> 3) @@ (1 :> 2) @@ (4 :> 5)
    /\ bclb_result.tag = "Ok"
    /\ bclb_result.start_to_end = plb_result.start_to_end
    /\ bclb_result.end_to_start = (2 :> 1) @@ (3 :> 0) @@ (5 :> 4)

\* which bracket the Token at 0-based position p is, counting from 1
BracketRank(p) == Cardinality({q \in 0..p : tokens[q + 1] \in {"[", "]"}})

\* which jump the instruction at 0-based index i is, counting from 1
JumpRank(i) == Cardinality({j \in 0..i : IsJump(byte_codes[j + 1])})

BracketPositions == {p \in 0..(Len(tokens) - 1) : tokens[p + 1] \in {"[", "]"}}

JumpIndices == {i \in 0..(Len(byte_codes) - 1) : IsJump(byte_codes[i + 1])}

\* the partner the match table of the direct evaluation gives a bracket
TokenPartner(p) ==
    IF tokens[p + 1] = "[" THEN start_to_end[p] ELSE end_to_start[p]

\* C32: for a well-bracketed source the match table direct mode computes
\* over the Tokens and the operands of the compiled jumps describe one
\* pairing: the m-th bracket is paired with the n-th bracket exactly if the
\* m-th jump is paired with the n-th jump.
C32_SamePairingBothLevels ==
    (Compiled /\ compile_result.tag = "Ok" /\ PairedBrackets(tokens))
        => /\ DOMAIN start_to_end \cup DOMAIN end_to_start = BracketPositions
           /\ Cardinality(JumpIndices) = Cardinality(BracketPositions)
           /\ \A p \in BracketPositions : \A i \in JumpIndices :
                 BracketRank(p) = JumpRank(i)
                     => /\ StrLoopCode(tokens[p + 1]) = ByteCodeLoopCode(byte_codes[i + 1])
                        /\ byte_codes[i + 1].arg \in JumpIndices
                        /\ BracketRank(TokenPartner(p)) = JumpRank(byte_codes[i + 1].arg)

\* in "++[-.]" the brackets are Tokens 2 and 5 and instructions 1 and 4: the
\* table pairs 2 with 5, the operands pair 1 with 4
C32_Witness ==
    /\ tokens = <<"+", "+", "[", "-", ".", "]">>
    /\ pc = "done"
    /\ start_to_end = (2 :> 5)
    /\ end_to_start = (5 :> 2)
    /\ byte_codes[2].arg = 4
    /\ byte_codes[5].arg = 1
    /\ JumpIndices = {1, 4}

\* the source holds no bracket
BracketFree(toks) == \A i \in 1..Len(toks) : toks[i] \notin {"[", "]"}

\* C33: a program without brackets whose reads all find a character ends
\* after exactly as many steps as it has Tokens in direct mode and as it has
\* instructions in compiled mode, and every step moves the instruction
\* pointer up by one.
C33_BracketFreeTerminates ==
    (BracketFree(tokens) /\ Evaluating /\ CountTokens(tokens, ",") <= Len(input))
        => /\ steps = instr_ptr
           /\ last_op # NoOp => instr_ptr > last_op.instr_ptr
           /\ pc \in {"direct_done", "done"}
                 => (steps = ProgramLength /\ instr_ptr = ProgramLength)

\* C34: read leaves in the current cell the code of the character it
\* consumed reduced modulo 256, the low 8 bits of a code of 256 or more,
\* and does not fail on such a character; write emits characters whose code
\* is the value of the current cell, a number in 0..255.
C34_ReadTruncatesWriteEmitsCell ==
    (pc = "ops" /\ last_op # NoOp /\ last_op.data_ptr < Len(last_op.cells))
        => /\ \A i \in 1..Len(cells) : cells[i] \in 0..255
           /\ last_op.kind = "Read"
                 => /\ ~panicked
                    /\ in_pos = last_op.in_pos + 1
                    /\ cells[data_ptr + 1] = input[in_pos] % 256
                    /\ input[in_pos] >= 256
                          => cells[data_ptr + 1] = input[in_pos] - 256
           /\ last_op.kind = "Write"
                 => /\ ~panicked
                    /\ Len(out_buf) > Len(last_op.out_buf)
                    /\ \A i \in (Len(last_op.out_buf) + 1)..Len(out_buf) :
                          /\ out_buf[i] = cells[data_ptr + 1]
                          /\ out_buf[i] \in 0..255

\* the character of code 258 was read, which left 2 in the cell, and the
\* write after it has emitted the character of code 2
C34_Witness ==
    /\ pc = "ops"
    /\ last_op.kind = "Write"
    /\ in_pos = 1
    /\ input[1] = 258
    /\ last_op.cells[last_op.data_ptr + 1] = 2
    /\ last_op.out_buf = <<>>
    /\ out_buf # <<>>
    /\ out_buf[1] = 2

\* the position pos advanced by k symbols of one byte on the same row
Advanced(pos, k) ==
    [row |-> pos.row, column |-> pos.column + k, offset |-> pos.offset + k]

\* C35: the range recorded for an instruction spans the symbols it was built
\* from: its end is its start advanced by k for a non-jump instruction
\* coalesced from k symbols, and by 1 for a jump.
C35_RangeSpansSymbols ==
    (pc = "compiled_ready" /\ compile_result.tag = "Ok")
        => \A k \in 1..Len(byte_codes) :
              byte_codes[k].range[2]
                  = Advanced(byte_codes[k].range[1], Covered(byte_codes[k]))

(***************************************************************************)
(* SpecTrace: one InstructionTracingCollector, built by new from a list of *)
(* names, on which add and finalize are called in any order.  trace_hist   *)
(* records the last call: its kind, the name it carried, the counts before  *)
(* it, the add calls made per name since the previous finalize (adds, and   *)
(* adds_before for the value a finalize found), and the vector the last     *)
(* finalize handed to its closure.                                          *)
(***************************************************************************)

TraceFrame == << tokens, input, in_pos, out_buf, cells, data_ptr, instr_ptr,
                 panicked, start_to_end, end_to_start, byte_codes,
                 direct_result, last_op, plb_result, bclb_result, op_count,
                 add_run, steps, pc, compile_result, outputs, raw_content,
                 unicode_chars, acc, idx_in_src >>

\* collector.add(name)
TraceAdd ==
    /\ pc = "tracing"
    /\ ~instr_tracing.panicked
    /\ trace_hist.calls < MaxTraceCalls
    /\ \E name \in TraceNames :
          /\ instr_tracing' = itc_add(instr_tracing, name)
          /\ trace_hist' = [trace_hist EXCEPT
                               !.op = "add", !.name = name,
                               !.prev_op = trace_hist.op,
                               !.c = instr_tracing.c,
                               !.adds[name] = @ + 1,
                               !.calls = @ + 1]
    /\ UNCHANGED TraceFrame

\* collector.finalize(f): f receives the sorted vector, then the reset
TraceFinalize ==
    /\ pc = "tracing"
    /\ ~instr_tracing.panicked
    /\ trace_hist.calls < MaxTraceCalls
    /\ \E vec \in itc_sorted(itc_filter(instr_tracing)) :
          trace_hist' = [trace_hist EXCEPT
                            !.op = "finalize", !.name = "",
                            !.prev_op = trace_hist.op,
                            !.c = instr_tracing.c,
                            !.adds_before = trace_hist.adds,
                            !.adds = NoAdds,
                            !.report = vec,
                            !.calls = @ + 1]
    /\ instr_tracing' = itc_reset(instr_tracing)
    /\ UNCHANGED TraceFrame

InitTrace ==
    /\ instr_tracing \in {itc_new(codes) : codes \in SeqsUpTo(TraceNames, MaxCodes)}
    /\ trace_hist = NoTrace
    /\ tokens = <<>>
    /\ input = <<>>
    /\ with_io(0)
    /\ start_to_end = EmptyMap
    /\ end_to_start = EmptyMap
    /\ byte_codes = <<>>
    /\ direct_result = NoDirectResult
    /\ last_op = NoOp
    /\ plb_result = NoResult
    /\ bclb_result = NoResult
    /\ op_count = 0
    /\ add_run = 0
    /\ steps = 0
    /\ compile_result = NoResult
    /\ outputs = <<>>
    /\ raw_content = <<>>
    /\ unicode_chars = <<>>
    /\ acc = <<>>
    /\ idx_in_src = 0
    /\ pc = "tracing"

NextTrace ==
    \/ TraceAdd
    \/ TraceFinalize

SpecTrace == InitTrace /\ [][NextTrace]_vars

\* the names and counts of a finalize's vector
Reported == {trace_hist.report[i] : i \in 1..Len(trace_hist.report)}

\* the registered names of the collector
Registered == DOMAIN instr_tracing.c

\* C36: InstructionTracingCollector: finalize reports exactly the registered
\* names that had an add call since the previous finalize, each once and
\* with the number of its add calls, and leaves every count at 0, so that a
\* finalize directly after a finalize reports nothing; an add with a name
\* that was not registered panics and changes no count, and an add with a
\* registered name does not panic.
C36_FinalizeReportsAddsAndResets ==
    pc = "tracing"
        => /\ trace_hist.op = "finalize"
                => /\ Reported = {<<n, trace_hist.adds_before[n]>> :
                                    n \in {m \in Registered :
                                             trace_hist.adds_before[m] > 0}}
                   /\ Len(trace_hist.report) = Cardinality(Reported)
                   /\ \A n \in Registered : instr_tracing.c[n] = 0
                   /\ ~instr_tracing.panicked
                   /\ trace_hist.prev_op = "finalize" => trace_hist.report = <<>>
           /\ (trace_hist.op = "add" /\ trace_hist.name \notin Registered)
                => /\ instr_tracing.panicked
                   /\ instr_tracing.c = trace_hist.c
           /\ (trace_hist.op = "add" /\ trace_hist.name \in Registered)
                => /\ ~instr_tracing.panicked
                   /\ instr_tracing.c[trace_hist.name]
                        = trace_hist.c[trace_hist.name] + 1

\* new(&["a", "b"]), add("b") twice and add("a") once, then finalize: the
\* vector is ("b", 2), ("a", 1) and both counts are 0 again
C36_Witness ==
    /\ pc = "tracing"
    /\ trace_hist.op = "finalize"
    /\ trace_hist.prev_op = "add"
    /\ Registered = {"a", "b"}
    /\ trace_hist.c = ("a" :> 1) @@ ("b" :> 2)
    /\ trace_hist.report = << <<"b", 2>>, <<"a", 1>> >>
    /\ instr_tracing.c = ("a" :> 0) @@ ("b" :> 0)


====
